---------------------------- MODULE Spec2Model ----------------------------
(***************************************************************************)
(* Outbound network access control of Spin: allow-list patterns            *)
(* (crates/outbound-networking-config/src/allowed_hosts.rs), the gate      *)
(* OutboundAllowedHosts with its shared, memoized policy resolution, and   *)
(* the blocked networks (blocked_networks.rs).                             *)
(*                                                                         *)
(* A text is a sequence of one-character strings, so that splitting,       *)
(* trimming, case folding and percent-encoding are computed, not assumed.  *)
(***************************************************************************)
EXTENDS Integers, Sequences, FiniteSets, TLC

(***************************************************************************)
(* Text helpers (Rust str methods used by the source).                     *)
(***************************************************************************)

\* Printable ASCII, code 32 (space) to 126 (~), in code order ("GRAVE" holds the
\* place of code 96, which a TLA+ string cannot hold; no text of the model uses it).
Ascii ==
    << " ", "!", "\"", "#", "$", "%", "&", "'", "(", ")", "*", "+", ",", "-", ".", "/",
       "0", "1", "2", "3", "4", "5", "6", "7", "8", "9", ":", ";", "<", "=", ">", "?",
       "@", "A", "B", "C", "D", "E", "F", "G", "H", "I", "J", "K", "L", "M", "N", "O",
       "P", "Q", "R", "S", "T", "U", "V", "W", "X", "Y", "Z", "[", "\\", "]", "^", "_",
       "GRAVE", "a", "b", "c", "d", "e", "f", "g", "h", "i", "j", "k", "l", "m", "n", "o",
       "p", "q", "r", "s", "t", "u", "v", "w", "x", "y", "z", "{", "|", "}", "~" >>

Chars == { Ascii[i] : i \in DOMAIN Ascii }

\* The code of a character.
CodeOf == [ c \in Chars |-> 31 + (CHOOSE i \in DOMAIN Ascii : Ascii[i] = c) ]

CharOf(code) == Ascii[code - 31]

IsDigit(c) == CodeOf[c] >= 48 /\ CodeOf[c] <= 57

IsUpper(c) == CodeOf[c] >= 65 /\ CodeOf[c] <= 90

IsLower(c) == CodeOf[c] >= 97 /\ CodeOf[c] <= 122

\* char::is_alphabetic restricted to ASCII.
IsAlpha(c) == IsUpper(c) \/ IsLower(c)

IsHexDigit(c) == IsDigit(c) \/ (CodeOf[c] >= 65 /\ CodeOf[c] <= 70) \/ (CodeOf[c] >= 97 /\ CodeOf[c] <= 102)

HexVal(c) ==
    IF IsDigit(c) THEN CodeOf[c] - 48
    ELSE IF IsUpper(c) THEN CodeOf[c] - 55
    ELSE CodeOf[c] - 87

ToLowerChar(c) == IF IsUpper(c) THEN CharOf(CodeOf[c] + 32) ELSE c

ToLower(s) == [ i \in DOMAIN s |-> ToLowerChar(s[i]) ]

Drop(s, n) == SubSeq(s, n + 1, Len(s))

Take(s, n) == SubSeq(s, 1, n)

StartsWith(s, p) == Len(p) <= Len(s) /\ Take(s, Len(p)) = p

EndsWith(s, p) == Len(p) <= Len(s) /\ Drop(s, Len(s) - Len(p)) = p

\* str::find: the 1-based position of the first occurrence of p in s, 0 if none.
Find(s, p) ==
    LET hits == { i \in 1..(Len(s) - Len(p) + 1) : SubSeq(s, i, i + Len(p) - 1) = p }
    IN  IF hits = {} THEN 0 ELSE CHOOSE i \in hits : \A j \in hits : i <= j

\* str::rfind: the 1-based position of the last occurrence of p in s, 0 if none.
RFind(s, p) ==
    LET hits == { i \in 1..(Len(s) - Len(p) + 1) : SubSeq(s, i, i + Len(p) - 1) = p }
    IN  IF hits = {} THEN 0 ELSE CHOOSE i \in hits : \A j \in hits : i >= j

Contains(s, p) == Find(s, p) > 0

\* The first position at or after `from` whose character lies in `set`, 0 if none.
FindAny(s, set, from) ==
    LET hits == { i \in from..Len(s) : s[i] \in set }
    IN  IF hits = {} THEN 0 ELSE CHOOSE i \in hits : \A j \in hits : i <= j

\* str::trim (the texts of the model hold no whitespace but the space).
TrimStart(s) ==
    LET keep == { i \in DOMAIN s : s[i] # " " }
    IN  IF keep = {} THEN << >> ELSE Drop(s, (CHOOSE i \in keep : \A j \in keep : i <= j) - 1)

TrimEnd(s) ==
    LET keep == { i \in DOMAIN s : s[i] # " " }
    IN  IF keep = {} THEN << >> ELSE Take(s, CHOOSE i \in keep : \A j \in keep : i >= j)

Trim(s) == TrimEnd(TrimStart(s))

\* str::trim_end_matches(c)
TrimEndMatches(s, c) ==
    LET keep == { i \in DOMAIN s : s[i] # c }
    IN  IF keep = {} THEN << >> ELSE Take(s, CHOOSE i \in keep : \A j \in keep : i >= j)

\* str::split(c): the pieces between the occurrences of c.
RECURSIVE Split(_, _)
Split(s, c) ==
    LET at == Find(s, << c >>)
    IN  IF at = 0 THEN << s >> ELSE << Take(s, at - 1) >> \o Split(Drop(s, at), c)

\* An absent value (Option::None) and a present one.
None == [ some |-> FALSE, val |-> 0 ]

Some(v) == [ some |-> TRUE, val |-> v ]

\* The value of a string of digits in the given radix.
RECURSIVE NumValue(_, _)
NumValue(s, radix) ==
    IF s = << >> THEN 0 ELSE NumValue(Take(s, Len(s) - 1), radix) * radix + HexVal(s[Len(s)])

\* Integers of the model stay below this; a longer digit string is out of range for
\* every integer type the source parses (u8, u16).
MaxDigits == 8

\* str::parse::<u16>(): an optional '+', then decimal digits, at most 65535.
ParseU16(s) ==
    LET body == IF s # << >> /\ s[1] = "+" THEN Drop(s, 1) ELSE s
    IN  IF body = << >> \/ (\E i \in DOMAIN body : ~IsDigit(body[i])) THEN None
        ELSE IF Len(TrimStart([ i \in DOMAIN body |-> IF body[i] = "0" THEN " " ELSE body[i] ])) > MaxDigits THEN None
        ELSE IF NumValue(body, 10) > 65535 THEN None
        ELSE Some(NumValue(body, 10))

\* The decimal text of a natural number.
RECURSIVE DecText(_)
DecText(n) == IF n < 10 THEN << CharOf(48 + n) >> ELSE DecText(n \div 10) \o << CharOf(48 + (n % 10)) >>

(***************************************************************************)
(* The url crate, as far as OutboundUrl::parse and HostConfig use it:       *)
(* url::Host::parse and url::Url::parse (WHATWG URL parsing).               *)
(***************************************************************************)

\* A byte that percent-decoding can produce and that is no printable ASCII.
Invalid == "INVALID"

\* The forbidden host code points of the URL standard.
ForbiddenHostChars == { " ", "#", "/", ":", "<", ">", "?", "@", "[", "\\", "]", "^", "|", Invalid }

ForbiddenDomainChars == ForbiddenHostChars \cup { "%" }

\* percent_encoding::percent_decode
RECURSIVE PercentDecode(_)
PercentDecode(s) ==
    IF s = << >> THEN << >>
    ELSE IF s[1] = "%" /\ Len(s) >= 3 /\ s[2] \in Chars /\ s[3] \in Chars /\ IsHexDigit(s[2]) /\ IsHexDigit(s[3])
    THEN LET code == 16 * HexVal(s[2]) + HexVal(s[3])
         IN  << IF code >= 32 /\ code <= 126 /\ code # 96 THEN CharOf(code) ELSE Invalid >> \o PercentDecode(Drop(s, 3))
    ELSE << s[1] >> \o PercentDecode(Drop(s, 1))

\* One part of a dotted IPv4 host: decimal, octal (leading 0) or hex (0x); None if it
\* is no number.
ParseIpv4Number(part) ==
    LET hex == Len(part) >= 2 /\ part[1] = "0" /\ part[2] \in { "x", "X" }
        oct == ~hex /\ Len(part) >= 2 /\ part[1] = "0"
        body == IF hex THEN Drop(part, 2) ELSE IF oct THEN Drop(part, 1) ELSE part
        radix == IF hex THEN 16 ELSE IF oct THEN 8 ELSE 10
        good(c) == c \in Chars /\ IF hex THEN IsHexDigit(c) ELSE IsDigit(c) /\ HexVal(c) < radix
    IN  IF part = << >> THEN None
        ELSE IF \E i \in DOMAIN body : ~good(body[i]) THEN None
        ELSE IF Len(body) > MaxDigits - 1 THEN None
        ELSE Some(NumValue(body, radix))

\* The parts of a host between dots, a trailing empty part dropped.
Ipv4Parts(host) ==
    LET parts == Split(host, ".")
    IN  IF Len(parts) > 1 /\ parts[Len(parts)] = << >> THEN Take(parts, Len(parts) - 1) ELSE parts

\* url::host::ends_in_a_number
EndsInANumber(host) ==
    LET IsNumber(last) ==
            /\ last # << >>
            /\ \/ \A i \in DOMAIN last : last[i] \in Chars /\ IsDigit(last[i])
               \/ ParseIpv4Number(last).some
        Last(parts) == parts[Len(parts)]
    IN  IsNumber(Last(Ipv4Parts(host)))

\* The numbers of the parts of a dotted host.
Ipv4Numbers(parts) == [ i \in 1..Len(parts) |-> ParseIpv4Number(parts[i]) ]

\* url::host::parse_ipv4addr: the four octets, or None.
ParseIpv4Addr(host) ==
    LET Octets(n, nums, last) ==
            IF n > 4 \/ (\E i \in 1..n : ~nums[i].some) THEN None
            ELSE IF \E i \in 1..(n - 1) : nums[i].val > 255 THEN None
            ELSE IF n = 4 /\ last > 255 THEN None
            ELSE IF n = 3 /\ last > 65535 THEN None
            ELSE IF n = 2 /\ last > 16777215 THEN None
            ELSE IF n = 1 THEN Some(<< last \div 16777216, (last \div 65536) % 256, (last \div 256) % 256, last % 256 >>)
            ELSE IF n = 2 THEN Some(<< nums[1].val, last \div 65536, (last \div 256) % 256, last % 256 >>)
            ELSE IF n = 3 THEN Some(<< nums[1].val, nums[2].val, last \div 256, last % 256 >>)
            ELSE Some(<< nums[1].val, nums[2].val, nums[3].val, last >>)
        FromNumbers(nums) == Octets(Len(nums), nums, nums[Len(nums)].val)
    IN  FromNumbers(Ipv4Numbers(Ipv4Parts(host)))

\* One group of an IPv6 text: one to four hex digits.
IsHexGroup(g) == Len(g) >= 1 /\ Len(g) <= 4 /\ \A i \in DOMAIN g : g[i] \in Chars /\ IsHexDigit(g[i])

Zeros(n) == [ i \in 1..n |-> 0 ]

\* url::host::parse_ipv6addr for texts of hex groups with at most one "::" (a dotted
\* IPv4 tail is not modelled): the eight segments, or None.
ParseIpv6Addr(text) ==
    LET at == Find(text, << ":", ":" >>)
        left == IF at = 0 THEN text ELSE Take(text, at - 1)
        right == IF at = 0 THEN << >> ELSE Drop(text, at + 1)
        lg == IF left = << >> THEN << >> ELSE Split(left, ":")
        rg == IF right = << >> THEN << >> ELSE Split(right, ":")
        groups == lg \o rg
        segs(gs) == [ i \in DOMAIN gs |-> NumValue(gs[i], 16) ]
    IN  IF \E i \in DOMAIN groups : ~IsHexGroup(groups[i]) THEN None
        ELSE IF at = 0 THEN (IF Len(groups) = 8 THEN Some(segs(groups)) ELSE None)
        ELSE IF Len(groups) > 7 THEN None
        ELSE Some(segs(lg) \o Zeros(8 - Len(groups)) \o segs(rg))

\* url::Host: a domain, an IPv4 address or an IPv6 address.
HostDomain(name) == [ kind |-> "Domain", name |-> name, addr |-> << >> ]

HostIpv4(addr) == [ kind |-> "Ipv4", name |-> << >>, addr |-> addr ]

HostIpv6(addr) == [ kind |-> "Ipv6", name |-> << >>, addr |-> addr ]

\* A failed parse (Err) and a successful one (Ok).
Err == [ ok |-> FALSE ]

Ok(v) == [ ok |-> TRUE, val |-> v ]

\* url::Host::parse for a host that is no bracketed IPv6 address: a domain, or an
\* IPv4 address when the last part is a number.
HostParseDomain(domain) ==
    LET V4(a) == IF a.some THEN Ok(HostIpv4(a.val)) ELSE Err
    IN  IF domain = << >> THEN Err
        ELSE IF \E i \in DOMAIN domain : domain[i] \in ForbiddenDomainChars THEN Err
        ELSE IF EndsInANumber(domain) THEN V4(ParseIpv4Addr(domain))
        ELSE Ok(HostDomain(domain))

\* url::Host::parse
HostParse(input) ==
    LET V6(a) == IF a.some THEN Ok(HostIpv6(a.val)) ELSE Err
    IN  IF StartsWith(input, << "[" >>)
        THEN IF ~EndsWith(input, << "]" >>) THEN Err
             ELSE V6(ParseIpv6Addr(SubSeq(input, 2, Len(input) - 1)))
        ELSE HostParseDomain(ToLower(PercentDecode(input)))

HexDigits == << "0", "1", "2", "3", "4", "5", "6", "7", "8", "9", "a", "b", "c", "d", "e", "f" >>

\* The lower-case hex text of a segment, without leading zeros.
RECURSIVE HexText(_)
HexText(n) == IF n < 16 THEN << HexDigits[n + 1] >> ELSE HexText(n \div 16) \o << HexDigits[(n % 16) + 1] >>

RECURSIVE JoinWith(_, _)
JoinWith(parts, sep) ==
    IF parts = << >> THEN << >>
    ELSE IF Len(parts) = 1 THEN parts[1]
    ELSE parts[1] \o sep \o JoinWith(Drop(parts, 1), sep)

\* The serialization of an IPv6 address: the first longest run of two or more zero
\* segments is written "::".
Ipv6Text(segs) ==
    LET run(i) == CHOOSE k \in 0..(9 - i) :
                      /\ \A j \in i..(i + k - 1) : segs[j] = 0
                      /\ (i + k <= 8 => segs[i + k] # 0)
        best == CHOOSE k \in 0..8 : (\E i \in 1..8 : run(i) = k) /\ \A i \in 1..8 : run(i) <= k
        start == CHOOSE i \in 1..8 : run(i) = best /\ \A j \in 1..8 : run(j) = best => i <= j
        hex(from, to) == JoinWith([ i \in 1..(to - from + 1) |-> HexText(segs[from + i - 1]) ], << ":" >>)
    IN  IF best < 2 THEN hex(1, 8)
        ELSE hex(1, start - 1) \o << ":", ":" >> \o hex(start + best, 8)

\* url::Host's Display, which Url::host_str returns.
HostText(h) ==
    IF h.kind = "Domain" THEN h.name
    ELSE IF h.kind = "Ipv4" THEN JoinWith([ i \in 1..4 |-> DecText(h.addr[i]) ], << "." >>)
    ELSE << "[" >> \o Ipv6Text(h.addr) \o << "]" >>

\* The special schemes of the URL standard with their default ports ("file", which
\* has parsing rules of its own, is left out: no text of the model uses it).
SpecialSchemes ==
    { << "h", "t", "t", "p" >>, << "h", "t", "t", "p", "s" >>, << "w", "s" >>,
      << "w", "s", "s" >>, << "f", "t", "p" >> }

\* url::parser::default_port
UrlDefaultPort(scheme) ==
    IF scheme \in { << "h", "t", "t", "p" >>, << "w", "s" >> } THEN Some(80)
    ELSE IF scheme \in { << "h", "t", "t", "p", "s" >>, << "w", "s", "s" >> } THEN Some(443)
    ELSE IF scheme = << "f", "t", "p" >> THEN Some(21)
    ELSE None

\* A URL's port text: digits only, at most 65535; Ok(None) when empty.
UrlParsePort(text) ==
    IF text = << >> THEN Ok(None)
    ELSE IF text[1] = "+" THEN Err
    ELSE LET p == ParseU16(text)
         IN  IF p.some THEN Ok(p) ELSE Err

\* A parsed url::Url, as far as OutboundUrl::parse reads it.
UrlValue(scheme, hasHost, host, port) ==
    [ ok |-> TRUE, scheme |-> scheme, hasHost |-> hasHost, host |-> host, port |-> port ]

UrlErr == [ ok |-> FALSE, scheme |-> << >>, hasHost |-> FALSE, host |-> << >>, port |-> None ]

\* The host of an authority: special schemes parse it as a domain or address, other
\* schemes keep it as written (an opaque host).
UrlHostOf(special, hostText) ==
    IF special \/ StartsWith(hostText, << "[" >>) THEN HostParse(hostText)
    ELSE IF \E i \in DOMAIN hostText : hostText[i] \in ForbiddenHostChars THEN Err
    ELSE Ok(HostDomain(hostText))

\* The URL of a scheme and the parts of its authority.
UrlAuthorityValue(scheme, special, at, hostText, port, host) ==
    IF ~port.ok THEN UrlErr
    ELSE IF hostText = << >>
    THEN IF special \/ at > 0 \/ port.val.some THEN UrlErr
         ELSE UrlValue(scheme, FALSE, << >>, None)
    ELSE IF ~host.ok THEN UrlErr
    ELSE UrlValue(scheme, TRUE, HostText(host.val),
                  IF port.val = UrlDefaultPort(scheme) THEN None ELSE port.val)

\* The authority `hp` after its userinfo, split at the colon at position c (0 if
\* there is none) into host and port.
UrlSplitAuthority(scheme, special, at, hp, c) ==
    IF c > 0 /\ hp[c] # ":" THEN UrlErr
    ELSE UrlAuthorityValue(scheme, special, at, IF c = 0 THEN hp ELSE Take(hp, c - 1),
                           UrlParsePort(IF c = 0 THEN << >> ELSE Drop(hp, c)),
                           UrlHostOf(special, IF c = 0 THEN hp ELSE Take(hp, c - 1)))

\* The authority of a URL (after the slashes): userinfo up to the last '@', the host
\* up to the first ':' outside brackets, then the port.
UrlParseAuthority(scheme, special, rest) ==
    LET stop == FindAny(rest, IF special THEN { "/", "?", "#", "\\" } ELSE { "/", "?", "#" }, 1)
        auth == IF stop = 0 THEN rest ELSE Take(rest, stop - 1)
        at == RFind(auth, << "@" >>)
        hostport == Drop(auth, at)
        close == IF StartsWith(hostport, << "[" >>) THEN Find(hostport, << "]" >>) ELSE 0
        colon == IF close > 0 THEN (IF close < Len(hostport) THEN close + 1 ELSE 0)
                 ELSE Find(hostport, << ":" >>)
    IN  UrlSplitAuthority(scheme, special, at, hostport, colon)

\* The characters after the leading slashes and backslashes.
RECURSIVE SkipSlashes(_)
SkipSlashes(s) == IF s # << >> /\ s[1] \in { "/", "\\" } THEN SkipSlashes(Drop(s, 1)) ELSE s

\* The scheme of a URL text, lower-cased, and the text after its colon.
UrlParseScheme(input) ==
    LET s == Trim(input)
        colon == Find(s, << ":" >>)
    IN  IF /\ colon > 1
           /\ IsAlpha(s[1])
           /\ \A i \in 1..(colon - 1) : IsAlpha(s[i]) \/ IsDigit(s[i]) \/ s[i] \in { "+", "-", "." }
        THEN Ok([ scheme |-> ToLower(Take(s, colon - 1)), rest |-> Drop(s, colon) ])
        ELSE Err

\* After the scheme: special schemes skip any slashes, others need "//" to have an
\* authority.
UrlAfterScheme(p) ==
    LET special == p.val.scheme \in SpecialSchemes
    IN  IF ~p.ok THEN UrlErr
        ELSE IF special \/ StartsWith(p.val.rest, << "/", "/" >>)
        THEN UrlParseAuthority(p.val.scheme, special,
                               IF special THEN SkipSlashes(p.val.rest) ELSE Drop(p.val.rest, 2))
        ELSE UrlValue(p.val.scheme, FALSE, << >>, None)

\* url::Url::parse (no base URL): scheme, lower-cased; then the authority.
UrlParse(input) == UrlAfterScheme(UrlParseScheme(input))

\* urlencoding::encode: every character but the unreserved ones becomes %XX.
UrlEncode(s) ==
    LET unreserved(c) == IsAlpha(c) \/ IsDigit(c) \/ c \in { "-", "_", ".", "~" }
        UpperHex == << "0", "1", "2", "3", "4", "5", "6", "7", "8", "9", "A", "B", "C", "D", "E", "F" >>
        enc(c) == IF unreserved(c) THEN << c >>
                  ELSE << "%", UpperHex[(CodeOf[c] \div 16) + 1], UpperHex[(CodeOf[c] % 16) + 1] >>
        RECURSIVE go(_)
        go(t) == IF t = << >> THEN << >> ELSE enc(t[1]) \o go(Drop(t, 1))
    IN  go(s)

(***************************************************************************)
(* The ip_network crate, as far as HostConfig and BlockedNetworks use it.   *)
(***************************************************************************)

\* std::net::Ipv4Addr::from_str: four decimal octets, no leading zeros.
ParseIpv4Strict(text) ==
    LET parts == Split(text, ".")
        good(p) == /\ Len(p) >= 1 /\ Len(p) <= 3
                   /\ \A i \in DOMAIN p : p[i] \in Chars /\ IsDigit(p[i])
                   /\ (Len(p) > 1 => p[1] # "0")
                   /\ NumValue(p, 10) <= 255
    IN  IF Len(parts) = 4 /\ \A i \in 1..4 : good(parts[i])
        THEN Some([ i \in 1..4 |-> NumValue(parts[i], 10) ])
        ELSE None

\* 2^n for the widths of the model.
RECURSIVE Pow2(_)
Pow2(n) == IF n = 0 THEN 1 ELSE 2 * Pow2(n - 1)

\* The address with all bits after the first `prefix` ones cleared; `width` is the
\* width of one element (8 for IPv4 octets, 16 for IPv6 segments).
Truncate(addr, prefix, width) ==
    [ i \in DOMAIN addr |->
        IF prefix >= i * width THEN addr[i]
        ELSE IF prefix <= (i - 1) * width THEN 0
        ELSE LET low == Pow2(width - (prefix - (i - 1) * width))
             IN  (addr[i] \div low) * low ]

\* ip_network::IpNetwork: an IPv4 or IPv6 network.
Network(kind, addr, prefix) == [ kind |-> kind, addr |-> addr, prefix |-> prefix ]

ElemWidth(kind) == IF kind = "V4" THEN 8 ELSE 16

\* IpNetwork::new_truncate
NewTruncate(kind, addr, prefix) == Network(kind, Truncate(addr, prefix, ElemWidth(kind)), prefix)

\* ip_network::IpNetwork::from_str_truncate: "<address>/<prefix length>".
CidrParse(text) ==
    LET Net(len, v4, v6) ==
            IF ~len.some THEN Err
            ELSE IF v4.some THEN (IF len.val <= 32 THEN Ok(NewTruncate("V4", v4.val, len.val)) ELSE Err)
            ELSE IF v6.some THEN (IF len.val <= 128 THEN Ok(NewTruncate("V6", v6.val, len.val)) ELSE Err)
            ELSE Err
        At(slash) ==
            IF slash = 0 THEN Err
            ELSE Net(ParseU16(Drop(text, slash)), ParseIpv4Strict(Take(text, slash - 1)),
                     ParseIpv6Addr(Take(text, slash - 1)))
    IN  At(Find(text, << "/" >>))

\* IpNetwork::contains: an address of the network's family whose first `prefix`
\* bits are the network's.
NetContains(net, kind, addr) ==
    net.kind = kind /\ Truncate(addr, net.prefix, ElemWidth(kind)) = net.addr

(***************************************************************************)
(* allowed_hosts.rs: one allowed_outbound_hosts item.                       *)
(***************************************************************************)

\* well_known_port
well_known_port(scheme) ==
    IF scheme = << "p", "o", "s", "t", "g", "r", "e", "s" >> THEN Some(5432)
    ELSE IF scheme = << "m", "y", "s", "q", "l" >> THEN Some(3306)
    ELSE IF scheme = << "r", "e", "d", "i", "s" >> THEN Some(6379)
    ELSE IF scheme = << "m", "q", "t", "t" >> THEN Some(1883)
    ELSE IF scheme = << "h", "t", "t", "p" >> THEN Some(80)
    ELSE IF scheme = << "h", "t", "t", "p", "s" >> THEN Some(443)
    ELSE None

\* IndividualPortConfig: one port, or a range start..end (end excluded).
PortOne(p) == [ kind |-> "Port", lo |-> p, hi |-> p ]

PortRange(a, b) == [ kind |-> "Range", lo |-> a, hi |-> b ]

\* IndividualPortConfig::parse
IndividualPortConfig_parse(port) ==
    LET dots == Find(port, << ".", "." >>)
        start == ParseU16(Take(port, dots - 1))
        end == ParseU16(Drop(port, dots + 1))
        one == ParseU16(port)
    IN  IF dots > 0
        THEN IF start.some /\ end.some THEN Ok(PortRange(start.val, end.val)) ELSE Err
        ELSE IF one.some THEN Ok(PortOne(one.val)) ELSE Err

\* An IndividualPortConfig::allows whose range holds its end (RangeInclusive).
IndividualPortConfig_allows_inclusive(p, port) ==
    IF p.kind = "Port" THEN p.lo = port ELSE p.lo <= port /\ port <= p.hi

\* IndividualPortConfig::allows
IndividualPortConfig_allows(p, port) ==
    IF p.kind = "Port" THEN p.lo = port ELSE p.lo <= port /\ port < p.hi

\* PortConfig: Any, or a list of port specifiers.
PortAny == [ kind |-> "Any", list |-> << >> ]

PortList(l) == [ kind |-> "List", list |-> l ]

\* A PortConfig::parse that takes any port when the entry gives none and its scheme
\* has no well-known one.
PortConfig_parse_any_without_default(port, scheme) ==
    LET Default(p) == IF p.some THEN Ok(PortList(<< PortOne(p.val) >>)) ELSE Ok(PortAny)
        One(p) == IF p.ok THEN Ok(PortList(<< p.val >>)) ELSE Err
    IN  IF port = << >> THEN Default(well_known_port(scheme))
        ELSE IF port = << "*" >> THEN Ok(PortAny)
        ELSE IF StartsWith(port, << "{" >>) THEN Err
        ELSE One(IndividualPortConfig_parse(port))

\* PortConfig::parse
PortConfig_parse(port, scheme) ==
    IF port = << >>
    THEN LET p == well_known_port(scheme)
         IN  IF p.some THEN Ok(PortList(<< PortOne(p.val) >>)) ELSE Err
    ELSE IF port = << "*" >> THEN Ok(PortAny)
    ELSE IF StartsWith(port, << "{" >>) THEN Err
    ELSE LET p == IndividualPortConfig_parse(port)
         IN  IF p.ok THEN Ok(PortList(<< p.val >>)) ELSE Err

\* PortConfig::allows
PortConfig_allows(ports, port, scheme) ==
    IF ports.kind = "Any" THEN TRUE
    ELSE LET p == IF port.some THEN port ELSE well_known_port(scheme)
         IN  IF ~p.some THEN FALSE
             ELSE \E i \in DOMAIN ports.list : IndividualPortConfig_allows(ports.list[i], p.val)

\* SchemeConfig: Any, or a list of schemes.
SchemeAny == [ kind |-> "Any", list |-> << >> ]

SchemeList(l) == [ kind |-> "List", list |-> l ]

\* SchemeConfig::parse
SchemeConfig_parse(scheme) ==
    IF scheme = << "*" >> THEN Ok(SchemeAny)
    ELSE IF StartsWith(scheme, << "{" >>) THEN Err
    ELSE IF \E i \in DOMAIN scheme : ~IsAlpha(scheme[i]) THEN Err
    ELSE Ok(SchemeList(<< scheme >>))

\* SchemeConfig::allows
SchemeConfig_allows(sc, scheme) ==
    IF sc.kind = "Any" THEN TRUE
    ELSE \E i \in DOMAIN sc.list : sc.list[i] = scheme

\* HostConfig: Any, AnySubdomain(suffix), ToSelf, Literal(host), Cidr(network).
HostAny == [ kind |-> "Any" ]

HostAnySubdomain(suffix) == [ kind |-> "AnySubdomain", suffix |-> suffix ]

HostToSelf == [ kind |-> "ToSelf" ]

HostLiteral(h) == [ kind |-> "Literal", host |-> h ]

HostCidr(net) == [ kind |-> "Cidr", net |-> net ]

\* HostConfig::literal
HostConfig_literal(host) ==
    LET Literal(h) == IF h.ok THEN Ok(HostLiteral(h.val)) ELSE Err
    IN  Literal(HostParse(host))

\* HostConfig::parse
HostConfig_parse(text) ==
    LET Parse(host, bare, net, literal) ==
            IF host = << "*" >> THEN Ok(HostAny)
            ELSE IF host = << "s", "e", "l", "f" >> \/ host = << "s", "e", "l", "f", ".", "a", "l", "t" >> THEN Ok(HostToSelf)
            ELSE IF StartsWith(host, << "{" >>) THEN Err
            ELSE IF net.ok THEN Ok(HostCidr(net.val))
            ELSE IF Contains(bare, << "/" >>) THEN Err
            ELSE IF StartsWith(bare, << "*", "." >>)
            THEN IF Contains(Drop(bare, 2), << "*" >>) THEN Err
                 ELSE Ok(HostAnySubdomain(<< "." >> \o Drop(bare, 2)))
            ELSE IF Contains(bare, << "*" >>) THEN Err
            ELSE literal
    IN  Parse(Trim(text), TrimEndMatches(Trim(text), "/"), CidrParse(Trim(text)),
              HostConfig_literal(TrimEndMatches(Trim(text), "/")))

\* A HostConfig::allows whose AnySubdomain looks at the text of the host only, be it
\* a domain or an IP address.
HostConfig_allows_by_text(hc, hostText) ==
    LET Allows(parsed) ==
            IF ~parsed.ok THEN FALSE
            ELSE IF hc.kind = "Any" THEN TRUE
            ELSE IF hc.kind = "AnySubdomain" THEN EndsWith(hostText, hc.suffix)
            ELSE IF hc.kind = "Literal" THEN parsed.val = hc.host
            ELSE IF hc.kind = "Cidr"
            THEN IF parsed.val.kind = "Ipv4" THEN NetContains(hc.net, "V4", parsed.val.addr)
                 ELSE IF parsed.val.kind = "Ipv6" THEN NetContains(hc.net, "V6", parsed.val.addr)
                 ELSE FALSE
            ELSE FALSE
    IN  Allows(HostParse(hostText))

\* A HostConfig::allows whose ToSelf matches the hosts named self and self.alt.
HostConfig_allows_self_by_name(hc, hostText) ==
    LET Allows(parsed) ==
            IF ~parsed.ok THEN FALSE
            ELSE IF hc.kind = "Any" THEN TRUE
            ELSE IF hc.kind = "AnySubdomain"
            THEN parsed.val.kind = "Domain" /\ EndsWith(parsed.val.name, hc.suffix)
            ELSE IF hc.kind = "Literal" THEN parsed.val = hc.host
            ELSE IF hc.kind = "Cidr"
            THEN IF parsed.val.kind = "Ipv4" THEN NetContains(hc.net, "V4", parsed.val.addr)
                 ELSE IF parsed.val.kind = "Ipv6" THEN NetContains(hc.net, "V6", parsed.val.addr)
                 ELSE FALSE
            ELSE hostText \in { << "s", "e", "l", "f" >>, << "s", "e", "l", "f", ".", "a", "l", "t" >> }
    IN  Allows(HostParse(hostText))

\* HostConfig::allows
HostConfig_allows(hc, hostText) ==
    LET Allows(parsed) ==
            IF ~parsed.ok THEN FALSE
            ELSE IF hc.kind = "Any" THEN TRUE
            ELSE IF hc.kind = "AnySubdomain"
            THEN parsed.val.kind = "Domain" /\ EndsWith(parsed.val.name, hc.suffix)
            ELSE IF hc.kind = "Literal" THEN parsed.val = hc.host
            ELSE IF hc.kind = "Cidr"
            THEN IF parsed.val.kind = "Ipv4" THEN NetContains(hc.net, "V4", parsed.val.addr)
                 ELSE IF parsed.val.kind = "Ipv6" THEN NetContains(hc.net, "V6", parsed.val.addr)
                 ELSE FALSE
            ELSE FALSE
    IN  Allows(HostParse(hostText))

\* HostConfig::allows_relative
HostConfig_allows_relative(hc) == hc.kind \in { "Any", "ToSelf" }

\* AllowedHostConfig: scheme, host and port of one item (its original text is kept
\* for Display only and is no part of its equality).
AllowedHostConfig(scheme, host, port) == [ scheme |-> scheme, host |-> host, port |-> port ]

\* AllowedHostConfig::parse
AllowedHostConfig_parse(original) ==
    LET url == Trim(original)
        sep == Find(url, << ":", "/", "/" >>)
        scheme == Take(url, sep - 1)
        rest == Drop(url, sep + 2)
        colon == RFind(rest, << ":" >>)
        host == IF colon = 0 THEN rest ELSE Take(rest, colon - 1)
        tail == IF colon = 0 THEN << >> ELSE Drop(rest, colon)
        slash == Find(tail, << "/" >>)
        portText == IF slash = 0 THEN tail ELSE Take(tail, slash - 1)
        path == IF slash = 0 THEN << >> ELSE Drop(tail, slash)
        Item(noSep, p, port, sc, hc) ==
            IF noSep THEN Err
            ELSE IF p # << >> THEN Err
            ELSE IF ~port.ok THEN Err
            ELSE IF ~sc.ok THEN Err
            ELSE IF ~hc.ok THEN Err
            ELSE Ok(AllowedHostConfig(sc.val, hc.val, port.val))
    IN  Item(sep = 0, path, PortConfig_parse(portText, scheme), SchemeConfig_parse(scheme),
             HostConfig_parse(host))

\* OutboundUrl: scheme, host text and explicit port of a destination.
OutboundUrl(scheme, host, port) == [ scheme |-> scheme, host |-> host, port |-> port ]

\* AllowedHostConfig::allows
AllowedHostConfig_allows(h, url) ==
    /\ SchemeConfig_allows(h.scheme, url.scheme)
    /\ HostConfig_allows(h.host, url.host)
    /\ PortConfig_allows(h.port, url.port, url.scheme)

\* An allows_relative that asks the port matcher too, with no port given.
AllowedHostConfig_allows_relative_with_port(h, schemes) ==
    /\ \E i \in DOMAIN schemes :
           SchemeConfig_allows(h.scheme, schemes[i]) /\ PortConfig_allows(h.port, None, schemes[i])
    /\ HostConfig_allows_relative(h.host)

\* AllowedHostConfig::allows_relative
AllowedHostConfig_allows_relative(h, schemes) ==
    /\ \E i \in DOMAIN schemes : SchemeConfig_allows(h.scheme, schemes[i])
    /\ HostConfig_allows_relative(h.host)

(***************************************************************************)
(* allowed_hosts.rs: the allowed_outbound_hosts config of a component.      *)
(***************************************************************************)

\* AllowedHostsConfig: All, or SpecificHosts(list of items).
All == [ kind |-> "All", hosts |-> << >> ]

SpecificHosts(hosts) == [ kind |-> "SpecificHosts", hosts |-> hosts ]

\* AllowedHostsConfig::allows with the three parts of a pattern matched apart, each
\* by any pattern of the list.
AllowedHostsConfig_allows_apart(cfg, url) ==
    IF cfg.kind = "All" THEN TRUE
    ELSE /\ \E i \in DOMAIN cfg.hosts : SchemeConfig_allows(cfg.hosts[i].scheme, url.scheme)
         /\ \E i \in DOMAIN cfg.hosts : HostConfig_allows(cfg.hosts[i].host, url.host)
         /\ \E i \in DOMAIN cfg.hosts : PortConfig_allows(cfg.hosts[i].port, url.port, url.scheme)

\* AllowedHostsConfig::allows
AllowedHostsConfig_allows(cfg, url) ==
    IF cfg.kind = "All" THEN TRUE
    ELSE \E i \in DOMAIN cfg.hosts : AllowedHostConfig_allows(cfg.hosts[i], url)

\* AllowedHostsConfig::allows_relative_url
AllowedHostsConfig_allows_relative_url(cfg, schemes) ==
    IF cfg.kind = "All" THEN TRUE
    ELSE \E i \in DOMAIN cfg.hosts : AllowedHostConfig_allows_relative(cfg.hosts[i], schemes)

\* AllowedHostsConfig::parse_partial, the loop over the items (literal items, no
\* templates): each is parsed and pushed in order, `?` returns the first failure.
RECURSIVE parse_partial_from(_, _)
parse_partial_push(rest, allowed, item) ==
    IF ~item.ok THEN Err ELSE parse_partial_from(rest, Append(allowed, item.val))

parse_partial_from(hosts, allowed) ==
    IF hosts = << >> THEN Ok(allowed)
    ELSE parse_partial_push(Tail(hosts), allowed, AllowedHostConfig_parse(Head(hosts)))

\* AllowedHostsConfig::parse_partial
AllowedHostsConfig_parse_partial(hosts) ==
    IF Len(hosts) = 1 /\ hosts[1] = << "i", "n", "s", "e", "c", "u", "r", "e", ":", "a", "l", "l", "o", "w", "-", "a", "l", "l" >> THEN Err
    ELSE parse_partial_from(hosts, << >>)

\* AllowedHostsConfig::parse, from the result of parse_partial on
AllowedHostsConfig_from(partial) == IF partial.ok THEN Ok(SpecificHosts(partial.val)) ELSE Err

\* AllowedHostsConfig::parse
AllowedHostsConfig_parse(hosts) == AllowedHostsConfig_from(AllowedHostsConfig_parse_partial(hosts))

\* An item of allowed_outbound_hosts as spin_expressions::Template sees it: a literal
\* text, or a template with the text the resolver gives for it, if any.
LiteralItem(text) == [ template |-> FALSE, text |-> text, resolved |-> None ]

TemplateItem(text, resolved) == [ template |-> TRUE, text |-> text, resolved |-> resolved ]

\* PartialAllowedHostConfig
PartialExact(h) == [ kind |-> "Exact", config |-> h, item |-> << >> ]

PartialUnresolved(item) == [ kind |-> "Unresolved", config |-> << >>, item |-> item ]

\* A parse_partial that leaves out the literal items it cannot parse.
RECURSIVE parse_partial_items_skipping(_, _)
parse_partial_items_skipping(hosts, allowed) ==
    LET Push(rest, item, parsed) ==
            IF item.template THEN parse_partial_items_skipping(rest, Append(allowed, PartialUnresolved(item)))
            ELSE IF ~parsed.ok THEN parse_partial_items_skipping(rest, allowed)
            ELSE parse_partial_items_skipping(rest, Append(allowed, PartialExact(parsed.val)))
    IN  IF hosts = << >> THEN Ok(allowed)
        ELSE Push(Tail(hosts), Head(hosts), AllowedHostConfig_parse(Head(hosts).text))

\* AllowedHostsConfig::parse_partial, the loop: a literal item is parsed, a template
\* is kept unresolved; `?` returns the first failure.
RECURSIVE parse_partial_items(_, _)
parse_partial_items(hosts, allowed) ==
    LET Push(rest, item, parsed) ==
            IF item.template THEN parse_partial_items(rest, Append(allowed, PartialUnresolved(item)))
            ELSE IF ~parsed.ok THEN Err
            ELSE parse_partial_items(rest, Append(allowed, PartialExact(parsed.val)))
    IN  IF hosts = << >> THEN Ok(allowed)
        ELSE Push(Tail(hosts), Head(hosts), AllowedHostConfig_parse(Head(hosts).text))

\* AllowedHostsConfig::parse_partial on items
AllowedHostsConfig_parse_partial_items(hosts) ==
    IF Len(hosts) = 1 /\ hosts[1].text = << "i", "n", "s", "e", "c", "u", "r", "e", ":", "a", "l", "l", "o", "w", "-", "a", "l", "l" >> THEN Err
    ELSE parse_partial_items(hosts, << >>)

\* PartialAllowedHostConfig::resolve
PartialAllowedHostConfig_resolve(p) ==
    IF p.kind = "Exact" THEN Ok(p.config)
    ELSE IF ~p.item.resolved.some THEN Err
    ELSE AllowedHostConfig_parse(p.item.resolved.val)

\* PartialAllowedHostConfig::validate
PartialAllowedHostConfig_validate(p) ==
    IF p.kind = "Exact" THEN TRUE
    ELSE IF ~p.item.resolved.some THEN TRUE
    ELSE AllowedHostConfig_parse(p.item.resolved.val).ok

\* AllowedHostsConfig::parse, with a resolver
AllowedHostsConfig_parse_resolving(hosts) ==
    LET Collect(partial) ==
            IF ~partial.ok THEN Err
            ELSE IF \E i \in DOMAIN partial.val : ~PartialAllowedHostConfig_resolve(partial.val[i]).ok THEN Err
            ELSE Ok(SpecificHosts([ i \in DOMAIN partial.val |-> PartialAllowedHostConfig_resolve(partial.val[i]).val ]))
    IN  Collect(AllowedHostsConfig_parse_partial_items(hosts))

\* AllowedHostsConfig::validate
AllowedHostsConfig_validate(hosts) ==
    LET Each(partial) ==
            IF ~partial.ok THEN Err
            ELSE IF \E i \in DOMAIN partial.val : ~PartialAllowedHostConfig_validate(partial.val[i]) THEN Err
            ELSE Ok(<< >>)
    IN  Each(AllowedHostsConfig_parse_partial_items(hosts))

(***************************************************************************)
(* allowed_hosts.rs: OutboundUrl::parse.                                    *)
(***************************************************************************)

\* The outcome of a call: a value, an error, or a panic that unwinds into the caller.
Parsed(v) == [ status |-> "ok", val |-> v ]

Failed == [ status |-> "err", val |-> << >> ]

Panicked == [ status |-> "panic", val |-> << >> ]

\* Lines 550-565: the userinfo before the first path separator is percent-encoded.
\* Positions are 1-based: `at` is the '@', schemeEnd the first position after "://".
\* The slice url[scheme_end..at] panics when the '@' lies before the end of "://".
EncodeUserinfo(url) ==
    LET at == Find(url, << "@" >>)
        sep == Find(url, << ":", "/", "/" >>)
        schemeEnd == IF sep = 0 THEN 1 ELSE sep + 3
        slash == FindAny(url, { "/" }, schemeEnd)
        userinfo == SubSeq(url, schemeEnd, at - 1)
    IN  IF at = 0 THEN Parsed(url)
        ELSE IF slash # 0 /\ at >= slash THEN Parsed(url)
        ELSE IF at < schemeEnd THEN Panicked
        ELSE Parsed(Take(url, schemeEnd - 1) \o UrlEncode(userinfo) \o Drop(url, at - 1))

\* Lines 567-590: the encoded text is parsed as it is; if that fails or yields no
\* host, it is parsed again behind the fallback scheme.
OutboundUrl_from(enc, scheme) ==
    LET Build(parsed) ==
            IF ~parsed.ok THEN Failed
            ELSE IF ~parsed.hasHost THEN Failed
            ELSE Parsed(OutboundUrl(parsed.scheme, parsed.host, parsed.port))
        Pick(first, second) == Build(IF first.ok /\ first.hasHost THEN first ELSE second)
    IN  IF enc.status = "panic" THEN Panicked
        ELSE Pick(UrlParse(enc.val), UrlParse(scheme \o << ":", "/", "/" >> \o enc.val))

\* OutboundUrl::parse
OutboundUrl_parse(text, scheme) == OutboundUrl_from(EncodeUserinfo(text), scheme)

\* OutboundUrl::authority
OutboundUrl_authority(url) ==
    IF url.port.some THEN url.host \o << ":" >> \o DecText(url.port.val) ELSE url.host

(***************************************************************************)
(* blocked_networks.rs: BlockedNetworks.  An address is V4 with four octets *)
(* or V6 with eight 16-bit segments.                                        *)
(***************************************************************************)

IpV4(addr) == [ kind |-> "V4", addr |-> addr ]

IpV6(addr) == [ kind |-> "V6", addr |-> addr ]

\* IpNetwork::from(ip_addr): the network of the one address.
HostNetwork(ip) == Network(ip.kind, ip.addr, IF ip.kind = "V4" THEN 32 ELSE 128)

\* One network lies inside another of its family.
NetInside(inner, outer) ==
    /\ inner.kind = outer.kind
    /\ inner.prefix >= outer.prefix
    /\ Truncate(inner.addr, outer.prefix, ElemWidth(outer.kind)) = outer.addr

\* The IPv4 ranges ip_network holds not to be globally routable: private, loopback,
\* link-local, documentation, shared address space, IETF protocol assignments,
\* benchmarking, reserved (with broadcast) and the unspecified address.
Ipv4NonGlobal ==
    { Network("V4", << 10, 0, 0, 0 >>, 8), Network("V4", << 172, 16, 0, 0 >>, 12),
      Network("V4", << 192, 168, 0, 0 >>, 16), Network("V4", << 127, 0, 0, 0 >>, 8),
      Network("V4", << 169, 254, 0, 0 >>, 16), Network("V4", << 192, 0, 2, 0 >>, 24),
      Network("V4", << 198, 51, 100, 0 >>, 24), Network("V4", << 203, 0, 113, 0 >>, 24),
      Network("V4", << 100, 64, 0, 0 >>, 10), Network("V4", << 192, 0, 0, 0 >>, 24),
      Network("V4", << 198, 18, 0, 0 >>, 15), Network("V4", << 240, 0, 0, 0 >>, 4),
      Network("V4", << 0, 0, 0, 0 >>, 32) }

\* The IPv6 ranges ip_network holds not to be globally routable: unspecified,
\* loopback, unique local, link-local, site-local and documentation.
Ipv6NonGlobal ==
    { Network("V6", << 0, 0, 0, 0, 0, 0, 0, 0 >>, 128), Network("V6", << 0, 0, 0, 0, 0, 0, 0, 1 >>, 128),
      Network("V6", << 64512, 0, 0, 0, 0, 0, 0, 0 >>, 7), Network("V6", << 65152, 0, 0, 0, 0, 0, 0, 0 >>, 10),
      Network("V6", << 65216, 0, 0, 0, 0, 0, 0, 0 >>, 10), Network("V6", << 8193, 3512, 0, 0, 0, 0, 0, 0 >>, 32) }

\* An is_global that knows the RFC 1918 and unique local ranges only.
IpNetwork_is_global_private_only(net) ==
    IF net.kind = "V4"
    THEN \A r \in { Network("V4", << 10, 0, 0, 0 >>, 8), Network("V4", << 172, 16, 0, 0 >>, 12),
                    Network("V4", << 192, 168, 0, 0 >>, 16) } : ~NetInside(net, r)
    ELSE ~NetInside(net, Network("V6", << 64512, 0, 0, 0, 0, 0, 0, 0 >>, 7))

\* IpNetwork::is_global: the whole network lies in no range that is not globally
\* routable; an IPv6 multicast network is global only in the global scope (ffxe::).
IpNetwork_is_global(net) ==
    IF net.kind = "V4" THEN \A r \in Ipv4NonGlobal : ~NetInside(net, r)
    ELSE IF NetInside(net, Network("V6", << 65280, 0, 0, 0, 0, 0, 0, 0 >>, 8))
    THEN net.prefix >= 16 /\ net.addr[1] % 16 = 14
    ELSE \A r \in Ipv6NonGlobal : ~NetInside(net, r)

\* The network one bit shorter that holds `net`.
Supernet(net) == NewTruncate(net.kind, net.addr, net.prefix - 1)

\* IpNetwork::collapse_addresses: networks inside other networks are dropped and two
\* halves of one network are merged into it, until nothing changes.
RECURSIVE collapse_addresses(_)
collapse_addresses(nets) ==
    LET inside == { n \in nets : \E m \in nets : m # n /\ NetInside(n, m) }
        halves == { n \in nets : n.prefix > 0 /\ \E m \in nets : m # n /\ m.prefix = n.prefix /\ m.kind = n.kind /\ Supernet(m) = Supernet(n) }
    IN  IF inside # {} THEN collapse_addresses(nets \ inside)
        ELSE IF halves # {} THEN collapse_addresses((nets \ halves) \cup { Supernet(n) : n \in halves })
        ELSE nets

\* BlockedNetworks: the table of blocked networks and the block_private flag.
BlockedNetworks(networks, block_private) == [ networks |-> networks, block_private |-> block_private ]

\* A constructor that skips a network when its first address is not globally
\* routable, whatever the network holds beyond it.
BlockedNetworks_new_by_first_address(block_networks, block_private_networks) ==
    BlockedNetworks({ n \in collapse_addresses(block_networks) :
                        ~(block_private_networks /\ ~IpNetwork_is_global(HostNetwork(IF n.kind = "V4" THEN IpV4(n.addr) ELSE IpV6(n.addr)))) },
                    block_private_networks)

\* BlockedNetworks::new
BlockedNetworks_new(block_networks, block_private_networks) ==
    BlockedNetworks({ n \in collapse_addresses(block_networks) : ~(block_private_networks /\ ~IpNetwork_is_global(n)) },
                    block_private_networks)

\* An is_empty that looks at the table of networks only.
BlockedNetworks_is_empty_no_networks(bn) == bn.networks = {}

\* BlockedNetworks::is_empty
BlockedNetworks_is_empty(bn) == ~bn.block_private /\ bn.networks = {}

\* IpNetworkTable::longest_match(ip).is_some()
longest_match(networks, ip) == \E n \in networks : NetContains(n, ip.kind, ip.addr)

\* Ipv6Addr::to_ipv4_mapped in the place of to_ipv4: IPv4-mapped addresses only.
Ipv6Addr_to_ipv4_mapped(a) ==
    IF (\A i \in 1..5 : a[i] = 0) /\ a[6] = 65535
    THEN Some(<< a[7] \div 256, a[7] % 256, a[8] \div 256, a[8] % 256 >>)
    ELSE None

\* std::net::Ipv6Addr::to_ipv4: the IPv4 address of an IPv4-compatible (::a.b.c.d) or
\* IPv4-mapped (::ffff:a.b.c.d) address.
Ipv6Addr_to_ipv4(a) ==
    IF (\A i \in 1..5 : a[i] = 0) /\ a[6] \in { 0, 65535 }
    THEN Some(<< a[7] \div 256, a[7] % 256, a[8] \div 256, a[8] % 256 >>)
    ELSE None

\* BlockedNetworks::is_blocked
RECURSIVE BlockedNetworks_is_blocked(_, _)
BlockedNetworks_is_blocked(bn, ip) ==
    IF bn.block_private /\ ~IpNetwork_is_global(HostNetwork(ip)) THEN TRUE
    ELSE IF longest_match(bn.networks, ip) THEN TRUE
    ELSE IF ip.kind = "V6" /\ Ipv6Addr_to_ipv4(ip.addr).some
    THEN BlockedNetworks_is_blocked(bn, IpV4(Ipv6Addr_to_ipv4(ip.addr).val))
    ELSE FALSE

\* SocketAddr, an IpAddrLike: as_ip_addr gives its IP address.
SocketAddr(ip, port) == [ ip |-> ip, port |-> port ]

as_ip_addr(a) == a.ip

\* A remove_blocked that takes the addresses out of the Vec before it looks whether
\* the set is empty.
BlockedNetworks_remove_blocked_takes_first(bn, addrs) ==
    IF BlockedNetworks_is_empty(bn) THEN [ addrs |-> << >>, blocked |-> << >> ]
    ELSE [ addrs |-> SelectSeq(addrs, LAMBDA a : ~BlockedNetworks_is_blocked(bn, as_ip_addr(a))),
           blocked |-> SelectSeq(addrs, LAMBDA a : BlockedNetworks_is_blocked(bn, as_ip_addr(a))) ]

\* BlockedNetworks::remove_blocked: the Vec as the call leaves it, and the Vec it
\* returns.
BlockedNetworks_remove_blocked(bn, addrs) ==
    IF BlockedNetworks_is_empty(bn) THEN [ addrs |-> addrs, blocked |-> << >> ]
    ELSE [ addrs |-> SelectSeq(addrs, LAMBDA a : ~BlockedNetworks_is_blocked(bn, as_ip_addr(a))),
           blocked |-> SelectSeq(addrs, LAMBDA a : BlockedNetworks_is_blocked(bn, as_ip_addr(a))) ]

\* crates/factor-outbound-networking, blocked_networks.rs: the BlockedNetworks of
\* that crate has the `new` and the `is_empty` of the one above, and these two.

\* BlockedNetworks::is_blocked (factor-outbound-networking)
Factor_BlockedNetworks_is_blocked(bn, ip) ==
    IF bn.block_private /\ ~IpNetwork_is_global(HostNetwork(ip)) THEN TRUE
    ELSE longest_match(bn.networks, ip)

\* BlockedNetworks::remove_blocked (factor-outbound-networking)
Factor_BlockedNetworks_remove_blocked(bn, addrs) ==
    IF BlockedNetworks_is_empty(bn) THEN [ addrs |-> addrs, blocked |-> << >> ]
    ELSE [ addrs |-> SelectSeq(addrs, LAMBDA a : ~Factor_BlockedNetworks_is_blocked(bn, as_ip_addr(a))),
           blocked |-> SelectSeq(addrs, LAMBDA a : Factor_BlockedNetworks_is_blocked(bn, as_ip_addr(a))) ]

(***************************************************************************)
(* TLS client configurations (factor-outbound-networking, tls.rs and        *)
(* runtime_config/spin.rs).  A certificate or key is a name; a              *)
(* TlsClientConfig holds what rustls was given and `arc`, the allocation    *)
(* its Arc points to: 0 for the default, i for the i-th entry of the list.  *)
(***************************************************************************)

\* The certificates rustls accepts as roots and in a client chain, and the private
\* keys it accepts.
ValidCerts == { "valid-cert" }

ValidKeys == { "valid-private-key" }

\* The files of the runtime configuration directory: load_certs and load_key fail on
\* every other path.
CertFiles == { "valid-cert.pem" }

KeyFiles == { "valid-private-key.pem" }

\* SpinRuntimeConfig::load_certs
load_certs(path) == IF path \in CertFiles THEN Ok(<< "valid-cert" >>) ELSE Err

\* SpinRuntimeConfig::load_key
load_key(path) == IF path \in KeyFiles THEN Ok("valid-private-key") ELSE Err

\* http::uri::Authority::from_str: no empty text, no delimiter, no '%', no '@' at the
\* end, and more than one ':' only in brackets.
Authority_parse(host) ==
    IF host = << >> THEN Err
    ELSE IF \E i \in DOMAIN host : host[i] \in { "/", "?", "#", "%", " ", "\\", "^", "|", "<", ">" } THEN Err
    ELSE IF host[Len(host)] = "@" THEN Err
    ELSE IF Cardinality({ i \in DOMAIN host : host[i] = ":" }) > 1 /\ (\A i \in DOMAIN host : host[i] # "]") THEN Err
    ELSE Ok(host)

\* http::uri::Authority::port: the text after the last ':', if it is a port number.
Authority_port(host) ==
    IF RFind(host, << ":" >>) = 0 THEN None ELSE ParseU16(Drop(host, RFind(host, << ":" >>)))

\* A validate_host that lets a port pass.
validate_host_any_port(host) == IF Authority_parse(host).ok THEN Ok(<< >>) ELSE Err

\* validate_host
validate_host(host) ==
    IF ~Authority_parse(host).ok THEN Err
    ELSE IF Authority_port(host).some THEN Err
    ELSE Ok(<< >>)

\* ClientCertRuntimeConfig
ClientCertRuntimeConfig(cert_chain, key_der) == [ cert_chain |-> cert_chain, key_der |-> key_der ]

\* ClientTlsRuntimeConfig
ClientTlsRuntimeConfig(components, hosts, root_certificates, use_webpki_roots, client_cert) ==
    [ components |-> components, hosts |-> hosts, root_certificates |-> root_certificates,
      use_webpki_roots |-> use_webpki_roots, client_cert |-> client_cert ]

\* ClientTlsToml
ClientTlsToml(component_ids, hosts, ca_use_webpki_roots, ca_roots_file, client_cert_file, client_private_key_file) ==
    [ component_ids |-> component_ids, hosts |-> hosts, ca_use_webpki_roots |-> ca_use_webpki_roots,
      ca_roots_file |-> ca_roots_file, client_cert_file |-> client_cert_file,
      client_private_key_file |-> client_private_key_file ]

\* Lines 155-163 of load_tls_config: the client certificate with its key.
load_client_cert(cert_file, key_file) ==
    IF cert_file.some /\ key_file.some
    THEN IF ~load_certs(cert_file.val).ok THEN Err
         ELSE IF ~load_key(key_file.val).ok THEN Err
         ELSE Ok(Some(ClientCertRuntimeConfig(load_certs(cert_file.val).val, load_key(key_file.val).val)))
    ELSE IF ~cert_file.some /\ ~key_file.some THEN Ok(None)
    ELSE Err

\* SpinRuntimeConfig::load_tls_config
load_tls_config(toml_config) ==
    IF toml_config.component_ids = << >> THEN Err
    ELSE IF toml_config.hosts = << >> THEN Err
    ELSE IF toml_config.ca_roots_file.some /\ ~load_certs(toml_config.ca_roots_file.val).ok THEN Err
    ELSE IF ~load_client_cert(toml_config.client_cert_file, toml_config.client_private_key_file).ok THEN Err
    ELSE Ok(ClientTlsRuntimeConfig(
                toml_config.component_ids,
                toml_config.hosts,
                IF toml_config.ca_roots_file.some THEN load_certs(toml_config.ca_roots_file.val).val ELSE << >>,
                IF toml_config.ca_use_webpki_roots.some THEN toml_config.ca_use_webpki_roots.val
                ELSE ~toml_config.ca_roots_file.some,
                load_client_cert(toml_config.client_cert_file, toml_config.client_private_key_file).val))

\* deserialize_hosts: every host of a [[client_tls]] table passes validate_host.
deserialize_hosts(hosts) == IF \A i \in DOMAIN hosts : validate_host(hosts[i]).ok THEN Ok(hosts) ELSE Err

\* Lines 107-111 of tls_configs_from_table: the entries are loaded in order, up to the
\* first that fails.
RECURSIVE load_tls_configs(_, _)
load_tls_configs(loaded, toml_configs) ==
    IF toml_configs = << >> THEN Ok(loaded)
    ELSE IF ~load_tls_config(Head(toml_configs)).ok THEN Err
    ELSE load_tls_configs(Append(loaded, load_tls_config(Head(toml_configs)).val), Tail(toml_configs))

\* SpinRuntimeConfig::tls_configs_from_table, for a table that has [[client_tls]].
tls_configs_from_table(toml_configs) ==
    IF \E i \in DOMAIN toml_configs : ~deserialize_hosts(toml_configs[i].hosts).ok THEN Err
    ELSE load_tls_configs(<< >>, toml_configs)

\* TlsClientConfig: the roots and the client certificate rustls holds, and the Arc.
TlsClientConfig(roots, webpki_roots, client_auth_cert, arc) ==
    [ roots |-> roots, webpki_roots |-> webpki_roots, client_auth_cert |-> client_auth_cert, arc |-> arc ]

\* TlsClientConfig::new, with the allocation of its Arc.
TlsClientConfig_new(root_certificates, use_webpki_roots, client_cert, arc) ==
    IF \E i \in DOMAIN root_certificates : root_certificates[i] \notin ValidCerts THEN Err
    ELSE IF ~client_cert.some
    THEN Ok(TlsClientConfig({ root_certificates[i] : i \in DOMAIN root_certificates }, use_webpki_roots, None, arc))
    ELSE IF client_cert.val.key_der \notin ValidKeys THEN Err
    ELSE IF client_cert.val.cert_chain = << >> THEN Err
    ELSE IF \E i \in DOMAIN client_cert.val.cert_chain : client_cert.val.cert_chain[i] \notin ValidCerts THEN Err
    ELSE Ok(TlsClientConfig({ root_certificates[i] : i \in DOMAIN root_certificates }, use_webpki_roots,
                            Some(client_cert.val.cert_chain), arc))

\* impl Default for TlsClientConfig
TlsClientConfig_default == TlsClientConfig_new(<< >>, TRUE, None, 0).val

\* Lines 45-52 with an insert that overwrites the mapping a host has.
RECURSIVE insert_hosts_last_wins(_, _, _)
insert_hosts_last_wins(host_configs, hosts, tls_client_config) ==
    IF hosts = << >> THEN Ok(host_configs)
    ELSE IF ~validate_host(Head(hosts)).ok THEN Err
    ELSE insert_hosts_last_wins(
             [ h \in DOMAIN host_configs \cup { Head(hosts) } |->
                   IF h = Head(hosts) THEN tls_client_config ELSE host_configs[h] ],
             Tail(hosts), tls_client_config)

\* Lines 45-52 of TlsClientConfigs::new: each host of the entry is validated and, if
\* the component has no mapping for it yet, mapped to the entry's configuration.
RECURSIVE insert_hosts(_, _, _)
insert_hosts(host_configs, hosts, tls_client_config) ==
    IF hosts = << >> THEN Ok(host_configs)
    ELSE IF ~validate_host(Head(hosts)).ok THEN Err
    ELSE insert_hosts(
             [ h \in DOMAIN host_configs \cup { Head(hosts) } |->
                   IF h \in DOMAIN host_configs THEN host_configs[h] ELSE tls_client_config ],
             Tail(hosts), tls_client_config)

\* The HashMap a component has in the nested map, the empty one if it has none.
host_configs_of(configs, component) ==
    IF component \in DOMAIN configs THEN configs[component] ELSE << >>

\* Lines 41-53 of TlsClientConfigs::new: the components of one entry.
RECURSIVE insert_components(_, _, _, _)
insert_components(configs, components, hosts, tls_client_config) ==
    IF components = << >> THEN Ok(configs)
    ELSE IF ~insert_hosts(host_configs_of(configs, Head(components)), hosts, tls_client_config).ok THEN Err
    ELSE insert_components(
             [ c \in DOMAIN configs \cup { Head(components) } |->
                   IF c = Head(components)
                   THEN insert_hosts(host_configs_of(configs, c), hosts, tls_client_config).val
                   ELSE configs[c] ],
             Tail(components), hosts, tls_client_config)

\* TlsClientConfigs
TlsClientConfigs(component_host_tls_client_configs, default_tls_client_config) ==
    [ component_host_tls_client_configs |-> component_host_tls_client_configs,
      default_tls_client_config |-> default_tls_client_config ]

\* The loop of TlsClientConfigs::new from the i-th entry on.
RECURSIVE TlsClientConfigs_from(_, _, _)
TlsClientConfigs_from(configs, client_tls_configs, i) ==
    IF i > Len(client_tls_configs) THEN Ok(TlsClientConfigs(configs, TlsClientConfig_default))
    ELSE IF client_tls_configs[i].components = << >> THEN Err
    ELSE IF client_tls_configs[i].hosts = << >> THEN Err
    ELSE IF ~TlsClientConfig_new(client_tls_configs[i].root_certificates, client_tls_configs[i].use_webpki_roots,
                                 client_tls_configs[i].client_cert, i).ok THEN Err
    ELSE IF ~insert_components(configs, client_tls_configs[i].components, client_tls_configs[i].hosts,
                               TlsClientConfig_new(client_tls_configs[i].root_certificates,
                                                   client_tls_configs[i].use_webpki_roots,
                                                   client_tls_configs[i].client_cert, i).val).ok THEN Err
    ELSE TlsClientConfigs_from(
             insert_components(configs, client_tls_configs[i].components, client_tls_configs[i].hosts,
                               TlsClientConfig_new(client_tls_configs[i].root_certificates,
                                                   client_tls_configs[i].use_webpki_roots,
                                                   client_tls_configs[i].client_cert, i).val).val,
             client_tls_configs, i + 1)

\* TlsClientConfigs::new
TlsClientConfigs_new(client_tls_configs) == TlsClientConfigs_from(<< >>, client_tls_configs, 1)

\* ComponentTlsClientConfigs
ComponentTlsClientConfigs(host_client_configs, default_client_config) ==
    [ host_client_configs |-> host_client_configs, default_client_config |-> default_client_config ]

\* A get_component_tls_configs that hands an unknown component the map of a known
\* one.
get_component_tls_configs_of_any(tls, component_id) ==
    ComponentTlsClientConfigs(
        IF component_id \in DOMAIN tls.component_host_tls_client_configs
        THEN Some(tls.component_host_tls_client_configs[component_id])
        ELSE IF DOMAIN tls.component_host_tls_client_configs # {}
        THEN Some(tls.component_host_tls_client_configs[CHOOSE c \in DOMAIN tls.component_host_tls_client_configs : TRUE])
        ELSE None,
        tls.default_tls_client_config)

\* TlsClientConfigs::get_component_tls_configs
get_component_tls_configs(tls, component_id) ==
    ComponentTlsClientConfigs(
        IF component_id \in DOMAIN tls.component_host_tls_client_configs
        THEN Some(tls.component_host_tls_client_configs[component_id])
        ELSE None,
        tls.default_tls_client_config)

\* ComponentTlsClientConfigs::get_client_config
get_client_config(component_configs, host) ==
    IF component_configs.host_client_configs.some /\ host \in DOMAIN component_configs.host_client_configs.val
    THEN component_configs.host_client_configs.val[host]
    ELSE component_configs.default_client_config

(***************************************************************************)
(* State.  The gate OutboundAllowedHosts (and its clones, which share the   *)
(* future and the handler) with the tasks that call it; and the inputs and  *)
(* results of the pure operations.                                          *)
(***************************************************************************)
VARIABLES
    future,       \* allowed_hosts_future: the shared, memoized resolution
    resolutions,  \* how many times the underlying resolution was started
    handler,      \* disallowed_host_handler: "none", "returns" or "panics"
    pc,           \* per caller: idle, awaiting (inside resolve), returned, panicked, dropped
    call,         \* per caller: the check it makes
    outcome,      \* per caller: what the check returned
    seen,         \* per caller: the resolution result its check was evaluated against
    reported,     \* per caller: the handler invocations its check made
    wakers,       \* tasks registered with the shared future
    woken,        \* tasks whose waker was called and that were not polled since
    op,           \* pure operations: which one is applied
    arg,          \* pure operations: its inputs
    res           \* pure operations: its results

gateVars == << future, resolutions, handler, pc, call, outcome, seen, reported, wakers, woken >>

pureVars == << op, arg, res >>

vars == << future, resolutions, handler, pc, call, outcome, seen, reported, wakers, woken, op, arg, res >>

\* The tasks that hold the gate or a clone of it.
NumCallers == 2

Callers == 1..NumCallers

\* The texts the callers pass to check_url, with fallback scheme "https"
\* (wasi.rs:234): one the first policy allows, one it denies, one that does not
\* normalize, one that normalizes only with the fallback scheme in front (to the
\* host "https"), one with an '@' before "://".
CheckTexts ==
    { << "h", "t", "t", "p", "s", ":", "/", "/", "a", ".", "i", "o" >>, << "h", "t", "t", "p", ":", "/", "/", "b", ".", "i", "o", ":", "8", "1" >>, << >>, << "h", "t", "t", "p", "s", ":", "/", "/" >>, << "a", "@", "b", ":", "/", "/", "c" >> }

FallbackScheme == << "h", "t", "t", "p", "s" >>

\* The candidate schemes the callers pass to check_relative_url (wasi.rs:229, and none).
CheckSchemes == { << << "h", "t", "t", "p" >>, << "h", "t", "t", "p", "s" >> >>, << >> }

\* The policies a resolution can produce.
PolicyTexts == { << << "h", "t", "t", "p", "s", ":", "/", "/", "a", ".", "i", "o" >> >>, << << "*", ":", "/", "/", "*", ":", "*" >> >>, << << "h", "t", "t", "p", ":", "/", "/", "s", "e", "l", "f" >> >>, << >> }

Policies == { AllowedHostsConfig_parse(t).val : t \in PolicyTexts } \cup { All }

\* Result<Arc<AllowedHostsConfig>, Arc<anyhow::Error>>: the failure holds no policy
\* (its val is never read).
ResolutionFailure == [ ok |-> FALSE, val |-> SpecificHosts(<< >>) ]

ResolutionResults == { Ok(p) : p \in Policies } \cup { ResolutionFailure }

\* anyhow::Result<bool> of a check, or nothing yet.
NoOutcome == [ status |-> "none", val |-> FALSE ]

OkOutcome(b) == [ status |-> "ok", val |-> b ]

ErrOutcome == [ status |-> "err", val |-> FALSE ]

\* `url` is the normalized destination check_url holds after OutboundUrl::parse.
UrlCall(text, url) == [ kind |-> "url", text |-> text, url |-> url, schemes |-> << >> ]

RelativeCall(schemes) == [ kind |-> "relative", text |-> << >>, url |-> << >>, schemes |-> schemes ]

NoCall == [ kind |-> "none", text |-> << >>, url |-> << >>, schemes |-> << >> ]

\* Shared<BoxFuture<..>>: never polled, polled and pending (`ready` holds the result
\* once the awaited source has produced it and no clone has polled since), or
\* complete with the stored result.
FutureInit == [ state |-> "Unresolved", ready |-> None, result |-> None ]

GateInit ==
    /\ future = FutureInit
    /\ resolutions = 0
    /\ pc = [ c \in Callers |-> "idle" ]
    /\ call = [ c \in Callers |-> NoCall ]
    /\ outcome = [ c \in Callers |-> NoOutcome ]
    /\ seen = [ c \in Callers |-> None ]
    /\ reported = [ c \in Callers |-> << >> ]
    /\ wakers = {}
    /\ woken = {}

PureIdle == op = "none" /\ arg = << >> /\ res = << >>

\* OutboundAllowedHosts::new: the handler is optional.
\* No handler, one that returns, or one that panics.
Handlers == { "none", "returns", "panics" }

Init == GateInit /\ handler \in Handlers /\ PureIdle

(***************************************************************************)
(* allowed_hosts.rs: OutboundAllowedHosts.                                  *)
(***************************************************************************)

\* The arguments check_url / check_relative_url pass to report_disallowed_host.
DisallowedArgs(rq) ==
    IF rq.kind = "url"
    THEN << rq.url.scheme, OutboundUrl_authority(rq.url) >>
    ELSE << IF rq.schemes = << >> THEN << >> ELSE rq.schemes[1], << "s", "e", "l", "f" >> >>

\* report_disallowed_host: the invocations of the handler, if one is set.
report_disallowed_host(h, args) == IF h = "none" THEN << >> ELSE << args >>

\* allowed_hosts.allows(&url) / allowed_hosts.allows_relative_url(schemes)
IsAllowedBy(policy, rq) ==
    IF rq.kind = "url"
    THEN AllowedHostsConfig_allows(policy, rq.url)
    ELSE AllowedHostsConfig_allows_relative_url(policy, rq.schemes)

\* The check with the error of the resolution swallowed: the request is evaluated as
\* if the policy were All.
CheckAfterResolve_fail_open(rq, r, h) ==
    IF ~r.ok \/ IsAllowedBy(r.val, rq) THEN [ pc |-> "returned", outcome |-> OkOutcome(TRUE), reported |-> << >> ]
    ELSE IF h = "panics"
    THEN [ pc |-> "panicked", outcome |-> NoOutcome, reported |-> report_disallowed_host(h, DisallowedArgs(rq)) ]
    ELSE [ pc |-> "returned", outcome |-> OkOutcome(FALSE), reported |-> report_disallowed_host(h, DisallowedArgs(rq)) ]

\* The check without the test `if !is_allowed` around the report.
CheckAfterResolve_reports_all(rq, r, h) ==
    IF ~r.ok THEN [ pc |-> "returned", outcome |-> ErrOutcome, reported |-> << >> ]
    ELSE IF h = "panics"
    THEN [ pc |-> "panicked", outcome |-> NoOutcome, reported |-> report_disallowed_host(h, DisallowedArgs(rq)) ]
    ELSE [ pc |-> "returned", outcome |-> OkOutcome(IsAllowedBy(r.val, rq)),
           reported |-> report_disallowed_host(h, DisallowedArgs(rq)) ]

\* check_url (lines 52-58) and check_relative_url (lines 67-76) from the result r of
\* `self.resolve().await` on: `?` returns the error; a denial calls the handler, whose
\* panic unwinds through the check.
CheckAfterResolve(rq, r, h) ==
    IF ~r.ok THEN [ pc |-> "returned", outcome |-> ErrOutcome, reported |-> << >> ]
    ELSE IF IsAllowedBy(r.val, rq) THEN [ pc |-> "returned", outcome |-> OkOutcome(TRUE), reported |-> << >> ]
    ELSE IF h = "panics"
    THEN [ pc |-> "panicked", outcome |-> NoOutcome, reported |-> report_disallowed_host(h, DisallowedArgs(rq)) ]
    ELSE [ pc |-> "returned", outcome |-> OkOutcome(FALSE), reported |-> report_disallowed_host(h, DisallowedArgs(rq)) ]

\* What a check has seen of the resolution: its result r, and how it got it ("first":
\* its own poll ran the resolution to its end; "taken": it took the result out of
\* the resolution another poll started; "stored": it read the stored result, having
\* awaited it; "cached": it came after the result was stored).
Seen(r, how) == [ some |-> TRUE, val |-> r, how |-> how ]

\* Caller c's check ends as `done` says, evaluated against r.
Finish(c, rq, r, how, done) ==
    /\ pc' = [ pc EXCEPT ![c] = done.pc ]
    /\ call' = [ call EXCEPT ![c] = rq ]
    /\ outcome' = [ outcome EXCEPT ![c] = done.outcome ]
    /\ seen' = [ seen EXCEPT ![c] = Seen(r, how) ]
    /\ reported' = [ reported EXCEPT ![c] = done.reported ]

\* The requests the tasks of the model make, once normalized.
Requests ==
    { UrlCall(t, OutboundUrl_parse(t, FallbackScheme).val) :
          t \in { x \in CheckTexts : OutboundUrl_parse(x, FallbackScheme).status = "ok" } }
        \cup { RelativeCall(ss) : ss \in CheckSchemes }

\* CheckAfterResolve, tabulated over the requests, results and handlers of the model.
Checked == [ rq \in Requests, r \in ResolutionResults, h \in Handlers |-> CheckAfterResolve(rq, r, h) ]

Complete(c, rq, r, how) == Finish(c, rq, r, how, Checked[rq, r, handler])

\* Caller c's check suspends in resolve().
Await(c, rq) ==
    /\ pc' = [ pc EXCEPT ![c] = "awaiting" ]
    /\ call' = [ call EXCEPT ![c] = rq ]
    /\ UNCHANGED << outcome, seen, reported >>

\* A future that hands out a stored result only if it is a success.
IsCached_success_only(f) == f.state = "Resolved" /\ f.result.val.ok

\* Shared::poll: a complete future hands out its stored result.
IsCached(f) == f.state = "Resolved"

\* Every clone that finds no stored result starts the resolution.
NeedsStart_always(f) == TRUE

\* Shared::poll: the clone that polls a future nobody polled yet starts the
\* underlying resolution; the clones that come while it is in flight join it.
NeedsStart(f) == f.state # "Resolving"

\* Only one of the registered wakers is woken.
ToWake_one(ws) == IF ws = {} THEN {} ELSE { CHOOSE c \in ws : TRUE }

\* The wakers the pending resolution wakes when its source is ready: all of them.
ToWake(ws) == ws

\* The wakers that stay registered when the task of one is dropped.
WakersAfterDrop(ws, c) == ws \ { c }

\* resolve(): the first poll of a clone of the shared future by caller c.
Resolve(c, rq) ==
    IF IsCached(future)
    THEN /\ Complete(c, rq, future.result.val, "cached")
         /\ UNCHANGED << future, resolutions, wakers, woken >>
    ELSE IF NeedsStart(future)
    THEN /\ resolutions' = resolutions + 1
         /\ \/ /\ future' = [ state |-> "Resolving", ready |-> None, result |-> None ]
               /\ Await(c, rq)
               /\ wakers' = wakers \cup { c }
               /\ UNCHANGED woken
            \/ \E r \in ResolutionResults :
                   /\ future' = [ state |-> "Resolved", ready |-> None, result |-> Some(r) ]
                   /\ Complete(c, rq, r, "first")
                   /\ woken' = woken \cup wakers
                   /\ wakers' = {}
    ELSE IF future.ready.some
    THEN /\ future' = [ state |-> "Resolved", ready |-> None, result |-> future.ready ]
         /\ Complete(c, rq, future.ready.val, "taken")
         /\ woken' = woken \cup wakers
         /\ wakers' = {}
         /\ UNCHANGED resolutions
    ELSE /\ Await(c, rq)
         /\ wakers' = wakers \cup { c }
         /\ UNCHANGED << future, resolutions, woken >>

\* check_url after OutboundUrl::parse: text that does not normalize is "not allowed"
\* before any resolution.
CheckParsed(c, text, parsed) ==
    IF parsed.status = "panic"
    THEN /\ pc' = [ pc EXCEPT ![c] = "panicked" ]
         /\ call' = [ call EXCEPT ![c] = UrlCall(text, << >>) ]
         /\ UNCHANGED << future, resolutions, outcome, seen, reported, wakers, woken >>
    ELSE IF parsed.status = "err"
    THEN /\ pc' = [ pc EXCEPT ![c] = "returned" ]
         /\ call' = [ call EXCEPT ![c] = UrlCall(text, << >>) ]
         /\ outcome' = [ outcome EXCEPT ![c] = OkOutcome(FALSE) ]
         /\ UNCHANGED << future, resolutions, seen, reported, wakers, woken >>
    ELSE Resolve(c, UrlCall(text, parsed.val))

\* check_url
CheckUrl(c, text) ==
    /\ pc[c] = "idle"
    /\ CheckParsed(c, text, OutboundUrl_parse(text, FallbackScheme))
    /\ UNCHANGED << handler, op, arg, res >>

\* check_relative_url
CheckRelativeUrl(c, schemes) ==
    /\ pc[c] = "idle"
    /\ Resolve(c, RelativeCall(schemes))
    /\ UNCHANGED << handler, op, arg, res >>

\* The source the pending resolution awaits produces its result and wakes the
\* registered tasks.
ResolutionReady(r) ==
    /\ future.state = "Resolving"
    /\ ~future.ready.some
    /\ future' = [ future EXCEPT !.ready = Some(r) ]
    /\ woken' = woken \cup ToWake(wakers)
    /\ UNCHANGED << resolutions, handler, pc, call, outcome, seen, reported, wakers, op, arg, res >>

\* A woken task polls its clone again: the first one takes the result out of the
\* resolution, stores it and wakes all others; the check then runs to its end.
Poll(c) ==
    /\ pc[c] = "awaiting"
    /\ c \in woken
    /\ IF IsCached(future)
       THEN /\ Complete(c, call[c], future.result.val, "stored")
            /\ woken' = woken \ { c }
            /\ wakers' = wakers \ { c }
            /\ UNCHANGED future
       ELSE IF future.ready.some
       THEN /\ future' = [ state |-> "Resolved", ready |-> None, result |-> future.ready ]
            /\ Complete(c, call[c], future.ready.val, "taken")
            /\ woken' = (woken \cup wakers) \ { c }
            /\ wakers' = {}
       ELSE /\ woken' = woken \ { c }
            /\ UNCHANGED << future, pc, call, outcome, seen, reported, wakers >>
    /\ UNCHANGED << resolutions, handler, op, arg, res >>

\* The task of an awaiting caller is dropped (its request is abandoned).
DropCaller(c) ==
    /\ pc[c] = "awaiting"
    /\ pc' = [ pc EXCEPT ![c] = "dropped" ]
    /\ wakers' = WakersAfterDrop(wakers, c)
    /\ woken' = woken \ { c }
    /\ UNCHANGED << future, resolutions, handler, call, outcome, seen, reported, op, arg, res >>

\* A new task takes the place of one that ended, with its own clone of the gate.
NewTask(c) ==
    /\ pc[c] \in { "returned", "panicked", "dropped" }
    /\ pc' = [ pc EXCEPT ![c] = "idle" ]
    /\ call' = [ call EXCEPT ![c] = NoCall ]
    /\ outcome' = [ outcome EXCEPT ![c] = NoOutcome ]
    /\ seen' = [ seen EXCEPT ![c] = None ]
    /\ reported' = [ reported EXCEPT ![c] = << >> ]
    /\ UNCHANGED << future, resolutions, handler, wakers, woken, op, arg, res >>

\* wasi.rs:227-237: prepare_request treats an error of the check as "not allowed".
unwrap_or_false(o) == o.status = "ok" /\ o.val

Next ==
    \/ \E c \in Callers, text \in CheckTexts : CheckUrl(c, text)
    \/ \E c \in Callers, schemes \in CheckSchemes : CheckRelativeUrl(c, schemes)
    \/ \E r \in ResolutionResults : ResolutionReady(r)
    \/ \E c \in Callers : Poll(c)
    \/ \E c \in Callers : DropCaller(c)
    \/ \E c \in Callers : NewTask(c)

Spec == Init /\ [][Next]_vars

(***************************************************************************)
(* The pure operations, applied to inputs drawn at the start: `op` names    *)
(* the last step, `arg` is the input and `res` the result.  The gate is     *)
(* idle meanwhile.                                                          *)
(***************************************************************************)

PureStart(name, inputs) ==
    /\ GateInit
    /\ handler = "none"
    /\ op = name
    /\ arg \in inputs
    /\ res = << >>

\* Allow-list entries `scheme://host:port` with a concrete scheme, host and port.
SchemePieces == { << "h", "t", "t", "p" >>, << "h", "t", "t", "p", "s" >>, << "H", "T", "T", "P" >>, << "w", "s" >>, << "r", "e", "d", "i", "s" >> }

HostPieces == { << "a", ".", "i", "o" >>, << "A", ".", "i", "o" >>, << "x", ".", "a", ".", "i", "o" >>, << "1", "2", "7", ".", "0", ".", "0", ".", "1" >>, << "1", ".", "2", ".", "3" >>, << "[", ":", ":", "1", "]" >> }

PortPieces == { << "8", "0" >>, << "4", "4", "3" >>, << "8", "0", "8", "0" >>, << "6", "3", "7", "9" >> }

EntryPieces == [ scheme : SchemePieces, host : HostPieces, port : PortPieces ]

Entry(p) == p.scheme \o << ":", "/", "/" >> \o p.host \o << ":" >> \o p.port

InitRoundTrip == PureStart("entry", EntryPieces)

\* AllowedHostConfig::parse of the entry.
ParseEntry ==
    /\ op = "entry"
    /\ op' = "pattern"
    /\ res' = AllowedHostConfig_parse(Entry(arg))
    /\ UNCHANGED << arg, gateVars >>

\* OutboundUrl::parse of the same text, the fallback scheme being the entry's.
NormalizeEntry ==
    /\ op = "pattern"
    /\ res.ok
    /\ op' = "url"
    /\ res' = [ pattern |-> res.val, url |-> OutboundUrl_parse(Entry(arg), arg.scheme) ]
    /\ UNCHANGED << arg, gateVars >>

\* AllowedHostsConfig::allows of the policy that holds only the entry's pattern.
AllowsEntry ==
    /\ op = "url"
    /\ res.url.status = "ok"
    /\ op' = "decision"
    /\ res' = [ pattern |-> res.pattern, url |-> res.url,
                allowed |-> AllowedHostsConfig_allows(SpecificHosts(<< res.pattern >>), res.url.val) ]
    /\ UNCHANGED << arg, gateVars >>

NextRoundTrip == ParseEntry \/ NormalizeEntry \/ AllowsEntry

SpecRoundTrip == InitRoundTrip /\ [][NextRoundTrip]_vars

\* Policies: All, or a list of at most MaxPatterns patterns.
MaxPatterns == 2

PatternTexts == { << "h", "t", "t", "p", ":", "/", "/", "a", ".", "i", "o", ":", "8", "0" >>, << "h", "t", "t", "p", "s", ":", "/", "/", "b", ".", "i", "o", ":", "4", "4", "3" >>, << "*", ":", "/", "/", "a", ".", "i", "o", ":", "8", "1" >>, << "h", "t", "t", "p", ":", "/", "/", "*", ":", "4", "4", "3" >>, << "h", "t", "t", "p", "s", ":", "/", "/", "s", "e", "l", "f" >>, << "*", ":", "/", "/", "*", ".", "a", ".", "i", "o", ":", "*" >>, << "*", ":", "/", "/", "*", ".", "0", ".", "1", ":", "*" >>, << "*", ":", "/", "/", "s", "e", "l", "f", ".", "a", "l", "t", ":", "*" >>, << "*", ":", "/", "/", "1", "0", ".", "0", ".", "0", ".", "0", "/", "8", ":", "*" >> }

PatternPool == { AllowedHostConfig_parse(t).val : t \in PatternTexts }

PolicyPool == { All } \cup { SpecificHosts(l) : l \in UNION { [ 1..n -> PatternPool ] : n \in 0..MaxPatterns } }

UrlTexts == { << "h", "t", "t", "p", ":", "/", "/", "a", ".", "i", "o" >>, << "h", "t", "t", "p", ":", "/", "/", "b", ".", "i", "o", ":", "4", "4", "3" >>, << "h", "t", "t", "p", "s", ":", "/", "/", "a", ".", "i", "o", ":", "8", "1" >>, << "h", "t", "t", "p", "s", ":", "/", "/", "b", ".", "i", "o" >>, << "h", "t", "t", "p", ":", "/", "/", "a", ".", "i", "o", ":", "4", "4", "3" >>, << "h", "t", "t", "p", "s", ":", "/", "/", "c", ".", "i", "o" >>, << "h", "t", "t", "p", ":", "/", "/", "x", ".", "a", ".", "i", "o" >>, << "h", "t", "t", "p", ":", "/", "/", "x", ".", "y", ".", "a", ".", "i", "o" >>, << "h", "t", "t", "p", ":", "/", "/", "n", "o", "t", "a", ".", "i", "o" >>, << "h", "t", "t", "p", ":", "/", "/", "1", "0", ".", "0", ".", "0", ".", "1" >>, << "h", "t", "t", "p", ":", "/", "/", "[", ":", ":", "1", "]" >>, << "h", "t", "t", "p", "s", ":", "/", "/", "s", "e", "l", "f" >>, << "h", "t", "t", "p", ":", "/", "/", "s", "e", "l", "f", ".", "a", "l", "t" >> }

RequestPool ==
    { UrlCall(t, OutboundUrl_parse(t, FallbackScheme).val) : t \in UrlTexts }
        \cup { RelativeCall(ss) : ss \in { << << "h", "t", "t", "p" >> >>, << << "h", "t", "t", "p" >>, << "h", "t", "t", "p", "s" >> >>, << >> } }

InitAllows == PureStart("request", [ policy : PolicyPool, request : RequestPool ])

\* AllowedHostsConfig::allows
Allows ==
    /\ op = "request"
    /\ arg.request.kind = "url"
    /\ op' = "allows"
    /\ res' = AllowedHostsConfig_allows(arg.policy, arg.request.url)
    /\ UNCHANGED << arg, gateVars >>

\* AllowedHostsConfig::allows_relative_url
AllowsRelativeUrl ==
    /\ op = "request"
    /\ arg.request.kind = "relative"
    /\ op' = "allows_relative"
    /\ res' = AllowedHostsConfig_allows_relative_url(arg.policy, arg.request.schemes)
    /\ UNCHANGED << arg, gateVars >>

NextAllows == Allows \/ AllowsRelativeUrl

SpecAllows == InitAllows /\ [][NextAllows]_vars

\* Block-sets: at most MaxNetworks explicit networks, with or without block_private.
MaxNetworks == 2

NetworkTexts == { << "1", "2", "3", ".", "1", "2", "3", ".", "0", ".", "0", "/", "1", "6" >>, << "1", "0", ".", "0", ".", "0", ".", "0", "/", "8" >>, << "1", "1", ".", "0", ".", "0", ".", "0", "/", "8" >>, << "2", "0", "0", "1", ":", ":", "/", "9", "6" >>, << ":", ":", "f", "f", "f", "f", ":", "7", "b", "7", "b", ":", "0", "/", "1", "1", "2" >>, << "f", "c", "0", "0", ":", ":", "/", "8" >> }

NetworkPool == { CidrParse(t).val : t \in NetworkTexts }

\* 123.123.123.123, 10.10.10.10, 8.8.8.8, 127.0.0.1, 100.64.1.1, 169.254.0.1,
\* 0.0.0.0, 192.0.0.1, 11.11.11.11; and ::ffff:123.123.123.123, ::123.123.123.123,
\* ::ffff:10.10.10.10, ::10.10.10.10, ::ffff:8.8.8.8, ::1, 2001::1000, 2600::beef,
\* fc00::f00d, ::ffff:127.0.0.1.
AddressPool ==
    { IpV4(<< 123, 123, 123, 123 >>), IpV4(<< 10, 10, 10, 10 >>), IpV4(<< 8, 8, 8, 8 >>),
      IpV4(<< 127, 0, 0, 1 >>), IpV4(<< 100, 64, 1, 1 >>), IpV4(<< 169, 254, 0, 1 >>),
      IpV4(<< 0, 0, 0, 0 >>), IpV4(<< 192, 0, 0, 1 >>), IpV6(<< 0, 0, 0, 0, 0, 65535, 32512, 1 >>),
      IpV4(<< 11, 11, 11, 11 >>),
      IpV6(<< 0, 0, 0, 0, 0, 65535, 31611, 31611 >>), IpV6(<< 0, 0, 0, 0, 0, 0, 31611, 31611 >>),
      IpV6(<< 0, 0, 0, 0, 0, 65535, 2570, 2570 >>), IpV6(<< 0, 0, 0, 0, 0, 0, 2570, 2570 >>),
      IpV6(<< 0, 0, 0, 0, 0, 65535, 2056, 2056 >>), IpV6(<< 0, 0, 0, 0, 0, 0, 0, 1 >>),
      IpV6(<< 8193, 0, 0, 0, 0, 0, 0, 4096 >>), IpV6(<< 9728, 0, 0, 0, 0, 0, 0, 48879 >>),
      IpV6(<< 64512, 0, 0, 0, 0, 0, 0, 61453 >>) }

InitBlocked ==
    PureStart("networks", [ networks : { ns \in SUBSET NetworkPool : Cardinality(ns) <= MaxNetworks },
                            block_private : BOOLEAN, addr : AddressPool ])

\* BlockedNetworks::new
New ==
    /\ op = "networks"
    /\ op' = "new"
    /\ res' = [ blocked_networks |-> BlockedNetworks_new(arg.networks, arg.block_private) ]
    /\ UNCHANGED << arg, gateVars >>

\* BlockedNetworks::is_blocked
IsBlocked ==
    /\ op = "new"
    /\ op' = "is_blocked"
    /\ res' = [ blocked_networks |-> res.blocked_networks,
                blocked |-> BlockedNetworks_is_blocked(res.blocked_networks, arg.addr) ]
    /\ UNCHANGED << arg, gateVars >>

NextBlocked == New \/ IsBlocked

SpecBlocked == InitBlocked /\ [][NextBlocked]_vars

\* Lists of at most MaxAddrs socket addresses, handed to the block-sets above:
\* 10.10.10.10:80, 10.10.10.10:443, 8.8.8.8:80, 123.123.123.123:443,
\* [::ffff:10.10.10.10]:80 and [2600::beef]:80.
MaxAddrs == 2

SocketAddrPool ==
    { SocketAddr(IpV4(<< 10, 10, 10, 10 >>), 80), SocketAddr(IpV4(<< 10, 10, 10, 10 >>), 443),
      SocketAddr(IpV4(<< 8, 8, 8, 8 >>), 80), SocketAddr(IpV4(<< 123, 123, 123, 123 >>), 443),
      SocketAddr(IpV6(<< 0, 0, 0, 0, 0, 65535, 2570, 2570 >>), 80),
      SocketAddr(IpV6(<< 9728, 0, 0, 0, 0, 0, 0, 48879 >>), 80) }

AddrLists == UNION { [ 1..n -> SocketAddrPool ] : n \in 0..MaxAddrs }

InitRemove ==
    PureStart("networks", [ networks : { ns \in SUBSET NetworkPool : Cardinality(ns) <= MaxNetworks },
                            block_private : BOOLEAN, addrs : AddrLists ])

\* BlockedNetworks::is_empty
IsEmpty ==
    /\ op = "new"
    /\ op' = "is_empty"
    /\ res' = [ blocked_networks |-> res.blocked_networks,
                empty |-> BlockedNetworks_is_empty(res.blocked_networks) ]
    /\ UNCHANGED << arg, gateVars >>

\* BlockedNetworks::remove_blocked
RemoveBlocked ==
    /\ op = "new"
    /\ op' = "remove_blocked"
    /\ res' = [ blocked_networks |-> res.blocked_networks,
                removed |-> BlockedNetworks_remove_blocked(res.blocked_networks, arg.addrs) ]
    /\ UNCHANGED << arg, gateVars >>

NextRemove == New \/ IsEmpty \/ RemoveBlocked

SpecRemove == InitRemove /\ [][NextRemove]_vars

\* TLS configurations: lists of at most MaxEntries entries, either [[client_tls]]
\* tables of the runtime configuration file or ClientTlsRuntimeConfig values given to
\* TlsClientConfigs::new as they are; and the component and the host of one lookup.
MaxEntries == 2

TomlPool ==
    { ClientTlsToml(<< "test-component1" >>, << << "a", ".", "i", "o" >> >>, None, None, Some("valid-cert.pem"), Some("valid-private-key.pem")),
      ClientTlsToml(<< "test-component1", "test-component2" >>, << << "a", ".", "i", "o" >> >>, None, None, None, None),
      ClientTlsToml(<< "test-component2" >>, << << "a", ".", "i", "o" >>, << "b", ".", "i", "o" >> >>, Some(FALSE), Some("valid-cert.pem"), None, None),
      ClientTlsToml(<< >>, << << "a", ".", "i", "o" >> >>, None, None, None, None),
      ClientTlsToml(<< "test-component1" >>, << >>, None, None, None, None),
      ClientTlsToml(<< "test-component1" >>, << << "a", ".", "i", "o", ":", "4", "4", "3" >> >>, None, None, None, None),
      ClientTlsToml(<< "test-component1" >>, << << "b", ".", "i", "o" >> >>, None, None, Some("valid-cert.pem"), None),
      ClientTlsToml(<< "test-component1" >>, << << "b", ".", "i", "o" >> >>, None, None, None, Some("valid-private-key.pem")),
      ClientTlsToml(<< "test-component2" >>, << << "b", ".", "i", "o" >> >>, None, None, Some("valid-cert.pem"), Some("missing.pem")) }

RuntimePool ==
    { load_tls_config(t).val : t \in { e \in TomlPool : load_tls_config(e).ok } }
    \cup { ClientTlsRuntimeConfig(<< >>, << << "a", ".", "i", "o" >> >>, << >>, TRUE, None),
           ClientTlsRuntimeConfig(<< "test-component1" >>, << >>, << >>, TRUE, None),
           ClientTlsRuntimeConfig(<< "test-component2" >>, << << "b", ".", "i", "o", ":", "4", "4", "3" >> >>, << >>, TRUE, None),
           ClientTlsRuntimeConfig(<< "test-component2" >>, << << "b", ".", "i", "o" >> >>, << >>, TRUE,
                                  Some(ClientCertRuntimeConfig(<< "valid-cert" >>, "other-key"))) }

ListsOf(pool) == UNION { [ 1..n -> pool ] : n \in 0..MaxEntries }

ComponentIds == { "test-component1", "test-component2", "other_component" }

HostNames == { << "a", ".", "i", "o" >>, << "b", ".", "i", "o" >>, << "c", ".", "i", "o" >> }

InitTls ==
    PureStart("entries",
              [ source : { "toml" }, entries : ListsOf(TomlPool), component_id : ComponentIds, host : HostNames ]
              \cup [ source : { "runtime_config" }, entries : ListsOf(RuntimePool), component_id : ComponentIds, host : HostNames ])

\* SpinRuntimeConfig::tls_configs_from_table
TlsConfigsFromTable ==
    /\ op = "entries"
    /\ arg.source = "toml"
    /\ op' = "loaded"
    /\ res' = tls_configs_from_table(arg.entries)
    /\ UNCHANGED << arg, gateVars >>

\* TlsClientConfigs::new on the entries a caller holds.
Build(client_tls_configs) ==
    /\ op' = "built"
    /\ res' = [ client_tls_configs |-> client_tls_configs, configs |-> TlsClientConfigs_new(client_tls_configs) ]
    /\ UNCHANGED << arg, gateVars >>

\* TlsClientConfigs::new on the entries loaded from the runtime configuration file.
NewFromTable == op = "loaded" /\ res.ok /\ Build(res.val)

\* TlsClientConfigs::new on entries made by the caller.
NewFromRuntimeConfig == op = "entries" /\ arg.source = "runtime_config" /\ Build(arg.entries)

\* get_component_tls_configs and get_client_config on the configurations built.
GetClientConfig ==
    /\ op = "built"
    /\ res.configs.ok
    /\ op' = "lookup"
    /\ res' = [ client_tls_configs |-> res.client_tls_configs, configs |-> res.configs,
                config |-> get_client_config(get_component_tls_configs(res.configs.val, arg.component_id), arg.host) ]
    /\ UNCHANGED << arg, gateVars >>

NextTls == TlsConfigsFromTable \/ NewFromTable \/ NewFromRuntimeConfig \/ GetClientConfig

SpecTls == InitTls /\ [][NextTls]_vars

\* Port matchers: the port part of an entry with the scheme of the entry, and the
\* port and the scheme of a URL the matcher is asked about.
PortTexts == { << "*" >>, << >>, << "8", "0" >>, << "8", "0", "8", "0", ".", ".", "8", "0", "8", "2" >>, << "4", "4", "3", ".", ".", "4", "4", "3" >>, << "8", "2", ".", ".", "8", "0" >>, << "0", ".", ".", "6", "5", "5", "3", "5" >>, << "8", "0", ".", ".", "x" >> }

EntrySchemes == { << "h", "t", "t", "p" >>, << "t", "c", "p" >> }

UrlPorts == { None, Some(0), Some(80), Some(443), Some(8079), Some(8080), Some(8081), Some(8082), Some(65535) }

UrlSchemes == { << "h", "t", "t", "p" >>, << "h", "t", "t", "p", "s" >>, << "r", "e", "d", "i", "s" >>, << "t", "c", "p" >> }

InitPorts ==
    PureStart("port", [ port : PortTexts, scheme : EntrySchemes, url_port : UrlPorts, url_scheme : UrlSchemes ])

\* PortConfig::parse
ParsePort ==
    /\ op = "port"
    /\ op' = "port_parsed"
    /\ res' = PortConfig_parse(arg.port, arg.scheme)
    /\ UNCHANGED << arg, gateVars >>

\* PortConfig::allows
PortAllows ==
    /\ op = "port_parsed"
    /\ res.ok
    /\ op' = "port_allows"
    /\ res' = [ ports |-> res.val, allowed |-> PortConfig_allows(res.val, arg.url_port, arg.url_scheme) ]
    /\ UNCHANGED << arg, gateVars >>

NextPorts == ParsePort \/ PortAllows

SpecPorts == InitPorts /\ [][NextPorts]_vars

\* Policies that hold the wildcard pattern, alone or among others, and the requests
\* they are asked about.
WildcardText == << "*", ":", "/", "/", "*", ":", "*" >>

WildcardPolicies ==
    LET pool == { AllowedHostConfig_parse(t).val : t \in { WildcardText, << "h", "t", "t", "p", ":", "/", "/", "a", ".", "i", "o", ":", "8", "0" >>, << "*", ":", "/", "/", "s", "e", "l", "f", ":", "4", "4", "3" >> } }
    IN  { SpecificHosts(l) : l \in { m \in UNION { [ 1..n -> pool ] : n \in 1..MaxPatterns } :
                                       \E i \in DOMAIN m : m[i] = AllowedHostConfig_parse(WildcardText).val } }

WildcardRequests ==
    { UrlCall(t, OutboundUrl_parse(t, FallbackScheme).val) :
        t \in { << "h", "t", "t", "p", ":", "/", "/", "a", ".", "i", "o" >>, << "h", "t", "t", "p", "s", ":", "/", "/", "b", ".", "i", "o", ":", "8", "4", "4", "3" >>, << "r", "e", "d", "i", "s", ":", "/", "/", "a", ".", "i", "o", ":", "6", "3", "7", "9" >>, << "r", "e", "d", "i", "s", ":", "/", "/", "a", "%", "2", "0", "b" >>,
                << "t", "c", "p", ":", "/", "/", "1", "0", ".", "0", ".", "0", ".", "1", ":", "9" >>, << "h", "t", "t", "p", ":", "/", "/", "[", ":", ":", "1", "]" >>, << "h", "t", "t", "p", ":", "/", "/", "s", "e", "l", "f", ".", "a", "l", "t" >>, << "c", ".", "i", "o", ":", "8", "1" >> } }
        \cup { RelativeCall(ss) : ss \in { << << "h", "t", "t", "p" >> >>, << << "h", "t", "t", "p" >>, << "h", "t", "t", "p", "s" >> >>, << << "t", "c", "p" >> >>, << >> } }

InitWildcard == PureStart("request", [ policy : WildcardPolicies, request : WildcardRequests ])

SpecWildcard == InitWildcard /\ [][NextAllows]_vars

\* Lists of allowed_outbound_hosts items: literal ones, well-formed or not, and
\* templates that resolve to some text or to nothing.
ItemPool ==
    { LiteralItem(t) : t \in { << "i", "n", "s", "e", "c", "u", "r", "e", ":", "a", "l", "l", "o", "w", "-", "a", "l", "l" >>, << "h", "t", "t", "p", ":", "/", "/", "a", ".", "i", "o", ":", "8", "0" >>, << "*", ":", "/", "/", "*", ":", "*" >>, << "a", ".", "i", "o" >>, << " ", "i", "n", "s", "e", "c", "u", "r", "e", ":", "a", "l", "l", "o", "w", "-", "a", "l", "l" >> } }
        \cup { TemplateItem(<< "{", "{", " ", "x", " ", "}", "}" >>, r) : r \in { None, Some(<< "h", "t", "t", "p", ":", "/", "/", "b", ".", "i", "o", ":", "8", "0" >>), Some(<< "b", ".", "i", "o" >>) } }

ItemLists == UNION { [ 1..n -> ItemPool ] : n \in 1..MaxPatterns }

InitItems == PureStart("hosts", ItemLists)

\* AllowedHostsConfig::parse
ParseItems ==
    /\ op = "hosts"
    /\ op' = "parse"
    /\ res' = AllowedHostsConfig_parse_resolving(arg)
    /\ UNCHANGED << arg, gateVars >>

\* AllowedHostsConfig::validate
ValidateItems ==
    /\ op = "hosts"
    /\ op' = "validate"
    /\ res' = AllowedHostsConfig_validate(arg)
    /\ UNCHANGED << arg, gateVars >>

NextItems == ParseItems \/ ValidateItems

SpecItems == InitItems /\ [][NextItems]_vars

\* Allow-list entries `scheme://host[:port][path]`, the port and the path being
\* optional.
EntrySchemePieces == { << "h", "t", "t", "p" >>, << "h", "t", "t", "p", "s" >>, << "p", "o", "s", "t", "g", "r", "e", "s" >>, << "m", "y", "s", "q", "l" >>, << "r", "e", "d", "i", "s" >>, << "m", "q", "t", "t" >>, << "w", "s" >>, << "*" >> }

EntryHostPieces == { << "[", ":", ":", "1", "]" >>, << "a", ".", "i", "o" >>, << "*", ".", "a", ".", "i", "o" >>, << "*" >>, << "s", "e", "l", "f" >>, << "1", "0", ".", "0", ".", "0", ".", "0", "/", "8" >> }

EntryPortPieces == { << >>, << ":", "8", "0" >>, << ":", "*" >> }

EntryPathPieces == { << >>, << "/" >>, << "/", "a" >>, << "/", "/" >> }

EntryText(p, path) == p.scheme \o << ":", "/", "/" >> \o p.host \o p.port \o path

InitEntries ==
    PureStart("text", [ scheme : EntrySchemePieces, host : EntryHostPieces, port : EntryPortPieces,
                        path : EntryPathPieces ])

\* AllowedHostConfig::parse of the entry, and of the entry without its path.
ParseText ==
    /\ op = "text"
    /\ op' = "parsed"
    /\ res' = [ entry |-> AllowedHostConfig_parse(EntryText(arg, arg.path)),
                bare |-> AllowedHostConfig_parse(EntryText(arg, << >>)) ]
    /\ UNCHANGED << arg, gateVars >>

NextEntries == ParseText

SpecEntries == InitEntries /\ [][NextEntries]_vars

\* Candidates `[scheme://]userinfo@host[:port][path]`, with the scheme the caller
\* falls back to.
CandidatePrefixes == { << >>, << "m", "y", "s", "q", "l", ":", "/", "/" >> }

CandidateUserinfos == { << "u", "s", "e", "r", ":", "p", "a", "s", "s", "w", "o", "r", "d" >>, << "u", "s", "e", "r", ":", "p", "a", "s", "s", "#", "w", "o", "r", "d" >>, << "u", "s", "e", "r", ":", "p", "a", "/", "s", "s" >>, << "u", "s", "e", "r" >> }

CandidateHosts == { << "x", "y", "z", ".", "c", "o", "m" >>, << "x", "y", "z", ".", "c", "o", "m", ":", "3", "3", "0", "7" >> }

CandidatePaths == { << >>, << "/", "f", "i", "l", "e", "@", "0", ".", "1", ".", "0", ".", "j", "s", "o", "n" >> }

InitCandidates ==
    PureStart("candidate", [ prefix : CandidatePrefixes, userinfo : CandidateUserinfos, host : CandidateHosts,
                             path : CandidatePaths, scheme : { << "m", "y", "s", "q", "l" >>, << "h", "t", "t", "p", "s" >> } ])

\* OutboundUrl::parse of the candidate with its userinfo as written, with its
\* userinfo percent-encoded, and without userinfo.
ParseCandidate ==
    /\ op = "candidate"
    /\ op' = "candidate_parsed"
    /\ res' = [ raw |-> OutboundUrl_parse(arg.prefix \o arg.userinfo \o << "@" >> \o arg.host \o arg.path, arg.scheme),
                encoded |-> OutboundUrl_parse(arg.prefix \o UrlEncode(arg.userinfo) \o << "@" >> \o arg.host \o arg.path,
                                              arg.scheme),
                bare |-> OutboundUrl_parse(arg.prefix \o arg.host \o arg.path, arg.scheme) ]
    /\ UNCHANGED << arg, gateVars >>

NextCandidates == ParseCandidate

SpecCandidates == InitCandidates /\ [][NextCandidates]_vars

(***************************************************************************)
(* factor-outbound-http wasi.rs: RequestSender::send.  `op` is the place    *)
(* the request has reached, `arg` the request with what its instance holds, *)
(* `res` what has happened to it so far.                                    *)
(***************************************************************************)

\* The URI of a request: without authority, with an authority of an empty host (as
\* wasmtime-wasi-http fills it in for relative URLs), or with a host.
RequestUri(hasAuthority, host, text) == [ hasAuthority |-> hasAuthority, host |-> host, text |-> text ]

RequestUris ==
    { RequestUri(FALSE, << >>, << "/", "x" >>), RequestUri(TRUE, << >>, << "h", "t", "t", "p", "s", ":", "/", "/", ":", "4", "4", "3", "/", "x" >>),
      RequestUri(TRUE, << "s", "e", "l", "f", ".", "a", "l", "t" >>, << "h", "t", "t", "p", ":", "/", "/", "s", "e", "l", "f", ".", "a", "l", "t", "/", "x" >>), RequestUri(TRUE, << "a", ".", "i", "o" >>, << "h", "t", "t", "p", "s", ":", "/", "/", "a", ".", "i", "o", "/", "x" >>),
      RequestUri(TRUE, << "b", ".", "i", "o" >>, << "h", "t", "t", "p", ":", "/", "/", "b", ".", "i", "o", "/" >>) }

\* What the interceptor of the instance does with a request, if there is one.
Interceptors == { "none", "continue", "complete", "error" }

InitSend ==
    PureStart("send", [ uri : RequestUris, resolution : ResolutionResults, handler : { "none", "returns" },
                        interceptor : Interceptors, origin : BOOLEAN ])

\* prepare_request, lines 204-224: an authority with an empty host is taken off; a
\* request without authority, or to the host self.alt, is a self request.
is_self_request(uri) == IF uri.hasAuthority /\ uri.host # << >> THEN uri.host = << "s", "e", "l", "f", ".", "a", "l", "t" >> ELSE TRUE

\* prepare_request, lines 227-237: the check that is awaited.
CheckOf(uri, r, h) ==
    CheckAfterResolve(IF is_self_request(uri) THEN RelativeCall(<< << "h", "t", "t", "p" >>, << "h", "t", "t", "p", "s" >> >>)
                      ELSE UrlCall(uri.text, OutboundUrl_parse(uri.text, << "h", "t", "t", "p", "s" >>).val),
                      r, h)

\* A prepare_request with `.unwrap_or(true)` on the outcome of the check.
is_allowed_unwrap_or_true(checked) == IF checked.outcome.status = "ok" THEN checked.outcome.val ELSE TRUE

\* prepare_request, lines 227-237: `.unwrap_or(false)` on the outcome of the check.
is_allowed(checked) == IF checked.outcome.status = "ok" THEN checked.outcome.val ELSE FALSE

\* The request after a step: the events so far, the outcome of the check and the
\* result of send, if it has returned.
Sending(events, checked, result) == [ events |-> events, checked |-> checked, result |-> result ]

\* RequestSender::prepare_request
PrepareRequest ==
    /\ op = "send"
    /\ LET checked == CheckOf(arg.uri, arg.resolution, arg.handler)
       IN  IF ~is_allowed(checked)
           THEN op' = "returned" /\ res' = Sending(<< "check" >>, checked.outcome, "HttpRequestDenied")
           ELSE IF is_self_request(arg.uri) /\ ~arg.origin
           THEN op' = "returned" /\ res' = Sending(<< "check" >>, checked.outcome, "HttpRequestUriInvalid")
           ELSE op' = "prepared" /\ res' = Sending(<< "check" >>, checked.outcome, "none")
    /\ UNCHANGED << arg, gateVars >>

\* RequestSender::send, lines 168-185: the interceptor, if one is set.
Intercept ==
    /\ op = "prepared"
    /\ IF arg.interceptor = "none" THEN op' = "intercepted" /\ res' = res
       ELSE IF arg.interceptor = "continue"
       THEN op' = "intercepted" /\ res' = Sending(Append(res.events, "intercept"), res.checked, "none")
       ELSE IF arg.interceptor = "complete"
       THEN op' = "returned" /\ res' = Sending(Append(res.events, "intercept"), res.checked, "response")
       ELSE op' = "returned" /\ res' = Sending(Append(res.events, "intercept"), res.checked, "error")
    /\ UNCHANGED << arg, gateVars >>

\* RequestSender::send_request: the client connects (or takes a connection it has);
\* a response comes, or an error.
SendRequest ==
    /\ op = "intercepted"
    /\ op' = "returned"
    /\ \E result \in { "response", "error" } : res' = Sending(Append(res.events, "connect"), res.checked, result)
    /\ UNCHANGED << arg, gateVars >>

NextSend == PrepareRequest \/ Intercept \/ SendRequest

SpecSend == InitSend /\ [][NextSend]_vars

(***************************************************************************)
(* factor-outbound-http wasi.rs: ConnectOptions::connect_tcp, on the        *)
(* block-sets and the address lists above (the lists being what the lookup  *)
(* of the host returns).                                                    *)
(***************************************************************************)

\* The outcome of connect_tcp: the addresses a connection was tried to, in order,
\* and the stream or the error returned.
Connecting(bn, attempted, result) == [ blocked_networks |-> bn, attempted |-> attempted, result |-> result ]

\* A connect_tcp that gives up when every address is blocked and otherwise connects
\* to the list as the lookup returned it.
connect_addrs_unfiltered(bn, socket_addrs) ==
    LET Given(removed) ==
            IF removed.addrs = << >> /\ removed.blocked # << >> THEN Err
            ELSE Ok(socket_addrs)
    IN  Given(BlockedNetworks_remove_blocked(bn, socket_addrs))

\* connect_tcp, lines 383-393: the blocked addresses are removed; with none left and
\* some removed the request is refused, else the list left is handed to connect.
connect_addrs(bn, socket_addrs) ==
    LET Given(removed) ==
            IF removed.addrs = << >> /\ removed.blocked # << >> THEN Err
            ELSE Ok(removed.addrs)
    IN  Given(BlockedNetworks_remove_blocked(bn, socket_addrs))

\* TcpStream::connect on a list: the addresses are tried in order until one accepts;
\* the results it can have are the prefixes tried, each ending connected or, for the
\* whole list, refused or timed out.
ConnectResults(bn, addrs) ==
    { Connecting(bn, Take(addrs, k), "connected") : k \in 1..Len(addrs) }
        \cup { Connecting(bn, addrs, e) : e \in { "ConnectionRefused", "ConnectionTimeout" } }

\* ConnectOptions::connect_tcp
ConnectTcp ==
    /\ op = "new"
    /\ op' = "connect_tcp"
    /\ LET given == connect_addrs(res.blocked_networks, arg.addrs)
       IN  \/ res' = Connecting(res.blocked_networks, << >>, "DnsError")
           \/ /\ ~given.ok
              /\ res' = Connecting(res.blocked_networks, << >>, "DestinationIpProhibited")
           \/ /\ given.ok
              /\ res' \in ConnectResults(res.blocked_networks, given.val)
    /\ UNCHANGED << arg, gateVars >>

NextConnect == New \/ ConnectTcp

SpecConnect == InitRemove /\ [][NextConnect]_vars

\* The two implementations of BlockedNetworks side by side, built from the same
\* networks and the same flag and asked about the same addresses.

\* is_blocked of both, on each address of the list
IsBlockedBoth ==
    /\ op = "new"
    /\ op' = "is_blocked_both"
    /\ res' = [ blocked_networks |-> res.blocked_networks,
                config |-> [ i \in DOMAIN arg.addrs |->
                                BlockedNetworks_is_blocked(res.blocked_networks, as_ip_addr(arg.addrs[i])) ],
                factor |-> [ i \in DOMAIN arg.addrs |->
                                Factor_BlockedNetworks_is_blocked(res.blocked_networks, as_ip_addr(arg.addrs[i])) ] ]
    /\ UNCHANGED << arg, gateVars >>

\* remove_blocked of both
RemoveBlockedBoth ==
    /\ op = "new"
    /\ op' = "remove_blocked_both"
    /\ res' = [ blocked_networks |-> res.blocked_networks,
                config |-> BlockedNetworks_remove_blocked(res.blocked_networks, arg.addrs),
                factor |-> Factor_BlockedNetworks_remove_blocked(res.blocked_networks, arg.addrs) ]
    /\ UNCHANGED << arg, gateVars >>

NextBoth == New \/ IsBlockedBoth \/ RemoveBlockedBoth

SpecBoth == InitRemove /\ [][NextBoth]_vars

(***************************************************************************)
(* factor-outbound-http: HTTPS requests of the instances of one app through *)
(* the pooling client they share.  `arg` holds the senders, `res` the idle  *)
(* connections of the client and how far each request has come.             *)
(***************************************************************************)

\* The requests in flight at once.
NumRequests == 2

Senders == 1..NumRequests

\* The TLS configuration of the app: test-component1 has a client certificate for
\* a.io; every other component and host gets the default.
AppTls ==
    TlsClientConfigs_new(<< ClientTlsRuntimeConfig(<< "test-component1" >>, << << "a", ".", "i", "o" >> >>, << >>, TRUE,
                                                   Some(ClientCertRuntimeConfig(<< "valid-cert" >>, "valid-private-key"))) >>).val

InitPool ==
    PureStart("app", [ pooling : BOOLEAN,
                       sender : [ Senders -> [ component : { "test-component1", "test-component2" },
                                               host : { << "a", ".", "i", "o" >>, << "b", ".", "i", "o" >> } ] ] ])

\* A connection of the client: the host it leads to and the TLS client configuration
\* it was established with.
Connection(host, config) == [ host |-> host, config |-> config ]

NoConnection == Connection(<< >>, TlsClientConfig_default)

\* A request: where it is, the ConnectOptions of its task, the connection it is on.
Request(at, options, conn) == [ at |-> at, options |-> options, conn |-> conn ]

\* HttpClients::new, and InstanceState holding a clone of it for every instance.
NewClients ==
    /\ op = "app"
    /\ op' = "clients"
    /\ res' = [ idle |-> {}, request |-> [ t \in Senders |-> Request("start", TlsClientConfig_default, NoConnection) ] ]
    /\ UNCHANGED << arg, gateVars >>

\* send_request, lines 283-295: the TLS client configuration of the component for the
\* host goes into the task-local CONNECT_OPTIONS and the request to the client.
ScopeOptions(t) ==
    /\ op = "clients"
    /\ res.request[t].at = "start"
    /\ res' = [ res EXCEPT !.request[t] =
                  Request("requested",
                          get_client_config(get_component_tls_configs(AppTls, arg.sender[t].component),
                                            arg.sender[t].host),
                          NoConnection) ]
    /\ UNCHANGED << op, arg, gateVars >>

\* The client has an idle connection to the host of the request and takes it; the
\* options of the task are not looked at (the comment at lines 359-362).
Checkout(t) ==
    /\ op = "clients"
    /\ res.request[t].at = "requested"
    /\ \E c \in res.idle :
           /\ c.host = arg.sender[t].host
           /\ res' = [ res EXCEPT !.idle = @ \ { c },
                                  !.request[t] = Request("sending", res.request[t].options, c) ]
    /\ UNCHANGED << op, arg, gateVars >>

\* HttpsConnector::connect: connect_tls with the TLS client configuration of
\* CONNECT_OPTIONS.
Connect(t) ==
    /\ op = "clients"
    /\ res.request[t].at = "requested"
    /\ res' = [ res EXCEPT !.request[t] =
                  Request("sending", res.request[t].options,
                          Connection(arg.sender[t].host, res.request[t].options)) ]
    /\ UNCHANGED << op, arg, gateVars >>

\* The response has come; with pooling the connection goes back to the client.
Respond(t) ==
    /\ op = "clients"
    /\ res.request[t].at = "sending"
    /\ res' = [ res EXCEPT !.idle = IF arg.pooling THEN @ \cup { res.request[t].conn } ELSE @,
                           !.request[t] = Request("done", res.request[t].options, res.request[t].conn) ]
    /\ UNCHANGED << op, arg, gateVars >>

NextPool == NewClients \/ \E t \in Senders : ScopeOptions(t) \/ Checkout(t) \/ Connect(t) \/ Respond(t)

SpecPool == InitPool /\ [][NextPool]_vars

(***************************************************************************)
(* The claims.                                                              *)
(***************************************************************************)

\* C1: an allow-list entry scheme://host:port that AllowedHostConfig::parse accepts
\* permits its own text: normalized by OutboundUrl::parse with the entry's scheme as
\* the fallback, the policy that holds only its pattern allows it.
C1_RoundTripPermits == op = "decision" => res.allowed

\* The parts of one pattern match the URL.
PatternMatches(h, url) ==
    /\ SchemeConfig_allows(h.scheme, url.scheme)
    /\ HostConfig_allows(h.host, url.host)
    /\ PortConfig_allows(h.port, url.port, url.scheme)

\* C2: allows(url) is true iff the policy is All or one single pattern of the list
\* matches the URL on scheme and host and port at once; a policy with an empty
\* pattern list denies every absolute URL and every relative request.
C2_AllowsIffOnePatternMatches ==
    /\ op = "allows" =>
           (res <=> \/ arg.policy.kind = "All"
                    \/ \E i \in DOMAIN arg.policy.hosts : PatternMatches(arg.policy.hosts[i], arg.request.url))
    /\ (op \in { "allows", "allows_relative" } /\ arg.policy = SpecificHosts(<< >>)) => res = FALSE

\* A URL was denied by a list of two patterns that match its scheme, its host and its
\* port between them, but not one of them alone.
C2_DeniedAcrossPatterns ==
    /\ op = "allows"
    /\ arg.policy.kind = "SpecificHosts"
    /\ Len(arg.policy.hosts) = 2
    /\ \E i \in 1..2 : SchemeConfig_allows(arg.policy.hosts[i].scheme, arg.request.url.scheme)
    /\ \E i \in 1..2 : HostConfig_allows(arg.policy.hosts[i].host, arg.request.url.host)
    /\ \E i \in 1..2 : PortConfig_allows(arg.policy.hosts[i].port, arg.request.url.port, arg.request.url.scheme)
    /\ res = FALSE

\* The IPv4 address an IPv6 address embeds: IPv4-compatible ::a.b.c.d or IPv4-mapped
\* ::ffff:a.b.c.d.
EmbedsIpv4(a) == (\A i \in 1..5 : a[i] = 0) /\ a[6] \in { 0, 65535 }

EmbeddedIpv4(a) == IpV4(<< a[7] \div 256, a[7] % 256, a[8] \div 256, a[8] % 256 >>)

\* An address is blocked as it stands: by block_private, or by an explicit network.
BlockedAsItStands(bn, ip) ==
    \/ bn.block_private /\ ~IpNetwork_is_global(HostNetwork(ip))
    \/ \E n \in bn.networks : NetContains(n, ip.kind, ip.addr)

\* C10: for an IPv6 address with an IPv4-mapped or IPv4-compatible form, is_blocked
\* is true if the address itself is blocked or the embedded IPv4 address is.
C10_EmbeddedIpv4Blocks ==
    (/\ op = "is_blocked"
     /\ arg.addr.kind = "V6"
     /\ EmbedsIpv4(arg.addr.addr)
     /\ \/ BlockedAsItStands(res.blocked_networks, arg.addr)
        \/ BlockedAsItStands(res.blocked_networks, EmbeddedIpv4(arg.addr.addr)))
        => res.blocked

\* An IPv4-compatible address that no network of the set holds was blocked for the
\* explicit network that holds its IPv4 address.
C10_CompatibleAddressBlocked ==
    /\ op = "is_blocked"
    /\ arg.addr.kind = "V6"
    /\ EmbedsIpv4(arg.addr.addr)
    /\ arg.addr.addr[6] = 0
    /\ ~arg.block_private
    /\ ~BlockedAsItStands(res.blocked_networks, arg.addr)
    /\ \E n \in res.blocked_networks.networks : NetContains(n, "V4", EmbeddedIpv4(arg.addr.addr).addr)
    /\ res.blocked

\* The fairness of the executor: a resolution in flight comes to its end, and a task
\* that was woken is polled.
FairSpec ==
    /\ Init
    /\ [][Next]_vars
    /\ WF_vars(\E r \in ResolutionResults : ResolutionReady(r))
    /\ \A c \in Callers : WF_vars(Poll(c))

\* The resolution has failed.
ResolutionFailed == future.state = "Resolved" /\ ~future.result.val.ok

\* The request of a check went through OutboundUrl::parse, or needed none.
Normalized(rq) == rq.kind = "relative" \/ (rq.kind = "url" /\ rq.url # << >>)

C4_SingleFlight ==
    /\ resolutions <= 1
    /\ (\E c \in Callers : pc[c] = "awaiting" \/ seen[c].some) => resolutions = 1
    /\ \A c, d \in Callers : (seen[c].some /\ seen[d].some) => seen[c].val = seen[d].val

\* All callers had their first check in flight at once and have returned: one took
\* the result out of the resolution, the others had awaited it.
C4_AllCallersJoined ==
    /\ resolutions = 1
    /\ \A c \in Callers : pc[c] = "returned" /\ seen[c].some /\ seen[c].how \in { "taken", "stored" }
    /\ \E c \in Callers : seen[c].how = "stored"

StateRank(st) == IF st = "Unresolved" THEN 0 ELSE IF st = "Resolving" THEN 1 ELSE 2

\* C5: the gate only moves Unresolved -> Resolving -> Resolved; once resolved, the
\* result (success or failure) stays, no check starts another resolution, and every
\* check sees the stored result.
C5_ResolvedForEver ==
    [][ /\ StateRank(future'.state) >= StateRank(future.state)
        /\ future.state = "Resolved" => (future' = future /\ resolutions' = resolutions)
        /\ \A c \in Callers : seen'[c].some =>
               (future'.state = "Resolved" /\ seen'[c].val = future'.result.val) ]_vars

\* A check that came after the result was stored has returned, with that result and
\* without another resolution.
C5_LateCheckSawStoredResult ==
    /\ resolutions = 1
    /\ future.state = "Resolved"
    /\ \E c \in Callers :
           pc[c] = "returned" /\ seen[c].some /\ seen[c].how = "cached" /\ seen[c].val = future.result.val

\* C6: check_url on text that cannot be normalized returns false: never true, never
\* an error, whatever the policy and the state of the resolution.
C6_UnparsableUrlReturnsFalse ==
    \A c \in Callers :
        (call[c].kind = "url" /\ OutboundUrl_parse(call[c].text, FallbackScheme).status # "ok")
            => (pc[c] = "returned" /\ outcome[c] = OkOutcome(FALSE))

\* What the handler is to be told of a denied request: the scheme and the authority
\* (host, and the port if the URL has one) of an absolute request; the first candidate
\* scheme (the empty text if there is none) and "self" of a relative request.
ExpectedReport(rq) ==
    IF rq.kind = "url"
    THEN << rq.url.scheme,
            IF rq.url.port.some THEN rq.url.host \o << ":" >> \o DecText(rq.url.port.val) ELSE rq.url.host >>
    ELSE << IF Len(rq.schemes) = 0 THEN << >> ELSE rq.schemes[1], << "s", "e", "l", "f" >> >>

\* C7 as claimed: with a handler set, every check that yields "not allowed" invokes
\* it exactly once, with the scheme and authority of the request; a check that yields
\* "allowed" never invokes it.
C7_EveryDenialReported ==
    \A c \in Callers : (pc[c] = "returned" /\ handler # "none") =>
        /\ outcome[c] = OkOutcome(FALSE) =>
               (Len(reported[c]) = 1 /\ (Normalized(call[c]) => reported[c][1] = ExpectedReport(call[c])))
        /\ outcome[c] = OkOutcome(TRUE) => reported[c] = << >>

\* The resolved policy denies the request of caller c.
DeniedByPolicy(c) == Normalized(call[c]) /\ seen[c].some /\ seen[c].val.ok /\ ~IsAllowedBy(seen[c].val.val, call[c])

\* C7 as amended: a check whose request the resolved policy denies invokes the
\* handler, if one is set, exactly once, with the scheme and authority of the request
\* ("self" and the first candidate scheme for a relative one); no other check invokes
\* it: not one that yields "allowed", not check_url on text that does not normalize
\* (which returns false), not one that ends with the error of the resolution.
C7_DenialByPolicyReportedOnce ==
    \A c \in Callers : pc[c] \in { "returned", "panicked" } =>
        reported[c] = IF handler # "none" /\ DeniedByPolicy(c) THEN << ExpectedReport(call[c]) >> ELSE << >>

\* A relative request and an absolute one were denied by the policy and reported.
C7_DenialsReported ==
    /\ handler = "returns"
    /\ \E c \in Callers : pc[c] = "returned" /\ call[c].kind = "url" /\ Normalized(call[c])
                          /\ outcome[c] = OkOutcome(FALSE) /\ reported[c] = << ExpectedReport(call[c]) >>
    /\ \E c \in Callers : pc[c] = "returned" /\ call[c].kind = "relative" /\ outcome[c] = OkOutcome(FALSE)
                          /\ reported[c] = << ExpectedReport(call[c]) >>

\* C8: the handler has no influence on a check: every check that got the result of
\* the resolution returns what it returns with no handler set, and a failure of the
\* handler does not reach the caller.
C8_HandlerHasNoInfluence ==
    \A c \in Callers : (pc[c] \in { "returned", "panicked" } /\ seen[c].some) =>
        /\ pc[c] = "returned"
        /\ outcome[c] = CheckAfterResolve(call[c], seen[c].val, "none").outcome

\* C9: no waiter is lost: every check that awaits the resolution comes to its end with
\* the result of the resolution (unless its own task is dropped), also when other
\* awaiting tasks are dropped.
C9_NoWaiterLost ==
    \A c \in Callers :
        (pc[c] = "awaiting") ~>
            \/ pc[c] = "dropped"
            \/ /\ pc[c] \in { "returned", "panicked" }
               /\ seen[c].some
               /\ future.state = "Resolved"
               /\ seen[c].val = future.result.val

\* A check that had awaited the resolution has returned with its result, while the
\* task of another, which had awaited it too, was dropped.
C9_WaiterReturnedOtherDropped ==
    \E c, d \in Callers :
        /\ pc[c] = "returned" /\ seen[c].some /\ seen[c].how \in { "taken", "stored" }
        /\ seen[c].val = future.result.val
        /\ pc[d] = "dropped"

\* The ranges that are not globally routable by name: loopback, RFC 1918 private,
\* link-local, shared address space and unspecified; IPv6 unspecified, loopback and
\* unique local.
NamedNonGlobal ==
    { Network("V4", << 127, 0, 0, 0 >>, 8), Network("V4", << 10, 0, 0, 0 >>, 8),
      Network("V4", << 172, 16, 0, 0 >>, 12), Network("V4", << 192, 168, 0, 0 >>, 16),
      Network("V4", << 169, 254, 0, 0 >>, 16), Network("V4", << 100, 64, 0, 0 >>, 10),
      Network("V4", << 0, 0, 0, 0 >>, 32), Network("V6", << 0, 0, 0, 0, 0, 0, 0, 0 >>, 128),
      Network("V6", << 0, 0, 0, 0, 0, 0, 0, 1 >>, 128), Network("V6", << 64512, 0, 0, 0, 0, 0, 0, 0 >>, 7) }

\* The forms of an address: the address, and the IPv4 address it embeds if it is an
\* IPv6 address that embeds one.
Forms(ip) ==
    IF ip.kind = "V6" /\ EmbedsIpv4(ip.addr) THEN { ip, EmbeddedIpv4(ip.addr) } ELSE { ip }

\* A form of the address lies in a range that is not globally routable by name.
NamedNotRoutable(ip) ==
    \E f \in Forms(ip) : \E r \in NamedNonGlobal : NetContains(r, f.kind, f.addr)

\* The address is globally routable in each of its forms.
GloballyRoutable(ip) == \A f \in Forms(ip) : IpNetwork_is_global(HostNetwork(f))

\* A form of the address lies in a network of the list.
Listed(networks, ip) ==
    \E f \in Forms(ip) : \E n \in networks : NetContains(n, f.kind, f.addr)

\* C11: with block_private, is_blocked is true for every address that is not globally
\* routable, in its own form or in its embedded IPv4 form, whatever the list of
\* explicit networks holds, and false for a globally routable address that lies in
\* no network of the list.
C11_PrivateBlockedGlobalFree ==
    (op = "is_blocked" /\ arg.block_private) =>
        /\ (NamedNotRoutable(arg.addr) \/ ~GloballyRoutable(arg.addr)) => res.blocked
        /\ (GloballyRoutable(arg.addr) /\ ~Listed(arg.networks, arg.addr)) => ~res.blocked

\* The IPv4-mapped form of a loopback address was blocked by a block-set with
\* block_private whose explicit networks do not hold it.
C11_MappedLoopbackBlocked ==
    /\ op = "is_blocked"
    /\ arg.block_private
    /\ arg.networks # {}
    /\ arg.addr = IpV6(<< 0, 0, 0, 0, 0, 65535, 32512, 1 >>)
    /\ ~Listed(arg.networks, arg.addr)
    /\ res.blocked

\* C12: skipping the networks that are not globally routable changes no answer: with
\* block_private, is_blocked of the set built from a list is true exactly when the
\* address is not globally routable or lies in a network of the list, each judged on
\* the address and on its embedded IPv4 form; and it is the answer of the set that
\* keeps every network of the collapsed list.
C12_SkippingIsPureOptimization ==
    (op = "is_blocked" /\ arg.block_private) =>
        /\ res.blocked <=> (~GloballyRoutable(arg.addr) \/ Listed(arg.networks, arg.addr))
        /\ res.blocked <=> BlockedNetworks_is_blocked(BlockedNetworks(collapse_addresses(arg.networks), TRUE), arg.addr)

\* Two adjacent networks of the list were merged into one that the set keeps, next
\* to nothing else, and an address of the list's second network was blocked by it.
C12_MergedNetworkBlocks ==
    /\ op = "is_blocked"
    /\ arg.block_private
    /\ Cardinality(arg.networks) = 2
    /\ Cardinality(res.blocked_networks.networks) = 1
    /\ res.blocked_networks.networks \cap arg.networks = {}
    /\ GloballyRoutable(arg.addr)
    /\ res.blocked

\* The positions of a list whose address the set blocks.
BlockedPositions(bn, addrs) ==
    { i \in DOMAIN addrs : BlockedNetworks_is_blocked(bn, as_ip_addr(addrs[i])) }

\* `part` holds the elements of `whole` at the positions `at`, and nothing else, in
\* the order they have in `whole`.
HoldsInOrder(part, whole, at) ==
    /\ Len(part) = Cardinality(at)
    /\ \E f \in [ DOMAIN part -> at ] :
           /\ \A i, j \in DOMAIN part : i < j => f[i] < f[j]
           /\ \A i \in DOMAIN part : part[i] = whole[f[i]]

\* C13: remove_blocked is an exact partition that keeps the order: the list it
\* leaves holds the addresses of the input that is_blocked refuses to block, the list
\* it returns holds those that is_blocked blocks, each in the order of the input,
\* none lost and none twice.
C13_ExactOrderedPartition ==
    op = "remove_blocked" =>
        /\ HoldsInOrder(res.removed.blocked, arg.addrs, BlockedPositions(res.blocked_networks, arg.addrs))
        /\ HoldsInOrder(res.removed.addrs, arg.addrs, DOMAIN arg.addrs \ BlockedPositions(res.blocked_networks, arg.addrs))

\* A list whose first address is blocked by block_private alone and whose second is
\* free was split into the two.
C13_SplitInTwo ==
    /\ op = "remove_blocked"
    /\ res.blocked_networks = BlockedNetworks({}, TRUE)
    /\ Len(arg.addrs) = 2
    /\ res.removed.blocked = << arg.addrs[1] >>
    /\ res.removed.addrs = << arg.addrs[2] >>

\* C14: on a set with no networks and no block_private, remove_blocked returns the
\* empty list and leaves its input as it was; is_empty is true of these sets and of
\* no other, and they block no address.
C14_EmptySetRemovesNothing ==
    /\ op = "remove_blocked" /\ arg.networks = {} /\ ~arg.block_private
           => res.removed = [ addrs |-> arg.addrs, blocked |-> << >> ]
    /\ op = "is_empty" =>
           /\ res.empty <=> (arg.networks = {} /\ ~arg.block_private)
           /\ res.empty => \A ip \in AddressPool : ~BlockedNetworks_is_blocked(res.blocked_networks, ip)

\* remove_blocked on the empty set left a list of a private and a public address
\* untouched.
C14_PrivateAddressLeftInPlace ==
    /\ op = "remove_blocked"
    /\ BlockedNetworks_is_empty(res.blocked_networks)
    /\ Len(arg.addrs) = 2
    /\ ~IpNetwork_is_global(HostNetwork(as_ip_addr(arg.addrs[1])))
    /\ res.removed.addrs = arg.addrs
    /\ res.removed.blocked = << >>

\* The entries of a list that name the component and the host.
EntriesFor(client_tls_configs, component, host) ==
    { i \in DOMAIN client_tls_configs :
        /\ \E k \in DOMAIN client_tls_configs[i].components : client_tls_configs[i].components[k] = component
        /\ \E k \in DOMAIN client_tls_configs[i].hosts : client_tls_configs[i].hosts[k] = host }

\* The first of a non-empty set of entries.
FirstOf(entries) == CHOOSE i \in entries : \A j \in entries : i <= j

\* The identity an entry configures: its roots and its client certificate.
IdentityOf(entry, config) ==
    /\ config.roots = { entry.root_certificates[k] : k \in DOMAIN entry.root_certificates }
    /\ config.webpki_roots = entry.use_webpki_roots
    /\ config.client_auth_cert = (IF entry.client_cert.some THEN Some(entry.client_cert.val.cert_chain) ELSE None)

\* The configuration stored for a component and a host, if there is one.
StoredFor(tls, component, host) ==
    IF component \in DOMAIN tls.component_host_tls_client_configs
       /\ host \in DOMAIN tls.component_host_tls_client_configs[component]
    THEN Some(tls.component_host_tls_client_configs[component][host])
    ELSE None

\* C15: first match wins: the identity TlsClientConfigs::new stores for a component
\* and a host is the one of the first entry, in input order, whose components hold
\* the component and whose hosts hold the host; a later entry does not overwrite it,
\* and a pair no entry names has no mapping.
C15_FirstMatchWins ==
    (op = "built" /\ res.configs.ok) =>
        \A c \in ComponentIds, h \in HostNames :
            IF EntriesFor(res.client_tls_configs, c, h) = {}
            THEN ~StoredFor(res.configs.val, c, h).some
            ELSE /\ StoredFor(res.configs.val, c, h).some
                 /\ StoredFor(res.configs.val, c, h).val.arc = FirstOf(EntriesFor(res.client_tls_configs, c, h))
                 /\ IdentityOf(res.client_tls_configs[FirstOf(EntriesFor(res.client_tls_configs, c, h))],
                               StoredFor(res.configs.val, c, h).val)

\* Two entries name the same component and host, the first with a client certificate
\* and the second without, and the stored identity has the certificate.
C15_SecondEntryIgnored ==
    /\ op = "built"
    /\ res.configs.ok
    /\ EntriesFor(res.client_tls_configs, "test-component1", << "a", ".", "i", "o" >>) = { 1, 2 }
    /\ res.client_tls_configs[1].client_cert.some
    /\ ~res.client_tls_configs[2].client_cert.some
    /\ StoredFor(res.configs.val, "test-component1", << "a", ".", "i", "o" >>).val.client_auth_cert.some

\* C16: the lookup is layered: it returns the identity configured for the component
\* and the host, that of the first entry that names both, if there is one, and the
\* default identity otherwise, which has the public roots and no client certificate;
\* an identity is returned only to a component its entry names.
C16_LayeredLookup ==
    op = "lookup" =>
        /\ IF EntriesFor(res.client_tls_configs, arg.component_id, arg.host) = {}
           THEN res.config = TlsClientConfig({}, TRUE, None, 0)
           ELSE /\ res.config.arc = FirstOf(EntriesFor(res.client_tls_configs, arg.component_id, arg.host))
                /\ IdentityOf(res.client_tls_configs[res.config.arc], res.config)
        /\ res.config.arc # 0 =>
               \E k \in DOMAIN res.client_tls_configs[res.config.arc].components :
                   res.client_tls_configs[res.config.arc].components[k] = arg.component_id

\* A client certificate is configured for test-component1 and a.io only, and the
\* lookup of test-component2 and a.io returned the default identity.
C16_OtherComponentGotDefault ==
    /\ op = "lookup"
    /\ Len(res.client_tls_configs) = 1
    /\ res.client_tls_configs[1].components = << "test-component1" >>
    /\ res.client_tls_configs[1].client_cert.some
    /\ arg.component_id = "test-component2"
    /\ arg.host \in { res.client_tls_configs[1].hosts[k] : k \in DOMAIN res.client_tls_configs[1].hosts }
    /\ res.config.arc = 0
    /\ ~res.config.client_auth_cert.some

\* The host text ends with ':' and a number.
HasPort(host) ==
    \E i \in DOMAIN host : host[i] = ":" /\ i < Len(host) /\ \A k \in (i + 1)..Len(host) : IsDigit(host[k])

\* An entry with no component, with no host or with a host that has a port.
EmptyOrPort(components, hosts) ==
    components = << >> \/ hosts = << >> \/ \E k \in DOMAIN hosts : HasPort(hosts[k])

\* A configuration that was built in full: its certificates are ones rustls accepts.
WellBuilt(config) ==
    /\ config.roots \subseteq ValidCerts
    /\ config.client_auth_cert.some =>
           /\ config.client_auth_cert.val # << >>
           /\ \A k \in DOMAIN config.client_auth_cert.val : config.client_auth_cert.val[k] \in ValidCerts

\* C17: the errors of a TLS configuration are raised when it is built: an entry with
\* no component, with no host, with a host that has a port, or with a client
\* certificate and no key or a key and no certificate makes the load of the
\* configuration file or TlsClientConfigs::new fail; and on the configurations that
\* were built every lookup returns an identity built in full.
C17_ErrorsAtBuildTime ==
    /\ op = "loaded" =>
           ((\E i \in DOMAIN arg.entries :
                 \/ EmptyOrPort(arg.entries[i].component_ids, arg.entries[i].hosts)
                 \/ arg.entries[i].client_cert_file.some # arg.entries[i].client_private_key_file.some)
            => ~res.ok)
    /\ op = "built" =>
           /\ (\E i \in DOMAIN res.client_tls_configs :
                   EmptyOrPort(res.client_tls_configs[i].components, res.client_tls_configs[i].hosts))
               => ~res.configs.ok
           /\ res.configs.ok =>
                  \A c \in ComponentIds, h \in HostNames :
                      WellBuilt(get_client_config(get_component_tls_configs(res.configs.val, c), h))
    /\ op = "lookup" => WellBuilt(res.config)

\* The load of a configuration file failed for its second table, which has a client
\* certificate and no key, after a first table that is in order.
C17_CertificateWithoutKeyRefused ==
    /\ op = "loaded"
    /\ ~res.ok
    /\ Len(arg.entries) = 2
    /\ load_tls_config(arg.entries[1]).ok
    /\ ~EmptyOrPort(arg.entries[2].component_ids, arg.entries[2].hosts)
    /\ arg.entries[2].client_cert_file.some
    /\ ~arg.entries[2].client_private_key_file.some

\* The text of a host is that of an IP address: an IPv6 address in brackets, or dotted
\* parts that end in a number.
IsIpLiteralText(host) ==
    /\ host # << >>
    /\ \/ host[1] = "["
       \/ /\ Drop(host, RFind(host, << "." >>)) # << >>
          /\ \A k \in (RFind(host, << "." >>) + 1)..Len(host) : IsDigit(host[k])

\* The domains D of the patterns *://*.D:* the policies hold.
WildcardDomains == { << "a", ".", "i", "o" >>, << "0", ".", "1" >> }

\* The pattern *://*.D:*, which leaves the decision to its host.
WildcardPattern(d) == AllowedHostConfig_parse(<< "*", ":", "/", "/", "*", "." >> \o d \o << ":", "*" >>).val

\* C18: a pattern whose host is *.D allows the host H of a URL exactly when H is a
\* domain name that ends with .D: D itself, a domain that ends with the characters of
\* D with no dot before them, and an IP address are not allowed.
C18_SubdomainWildcard ==
    \A d \in WildcardDomains :
        (op = "allows" /\ arg.policy = SpecificHosts(<< WildcardPattern(d) >>)) =>
            (res <=> (~IsIpLiteralText(arg.request.url.host) /\ EndsWith(arg.request.url.host, << "." >> \o d)))

\* The pattern *://*.0.1:* refused the URL of the IP address 10.0.0.1, whose text
\* ends with .0.1.
C18_IpAddressNotASubdomain ==
    /\ op = "allows"
    /\ arg.policy = SpecificHosts(<< WildcardPattern(<< "0", ".", "1" >>) >>)
    /\ arg.request.url.host = << "1", "0", ".", "0", ".", "0", ".", "1" >>
    /\ res = FALSE

\* C19: a policy made of patterns whose host is self or self.alt allows no absolute
\* URL, not even one whose host is named self or self.alt.
C19_SelfNeverAllowsAbsolute ==
    (/\ op = "allows"
     /\ arg.policy.kind = "SpecificHosts"
     /\ \A i \in DOMAIN arg.policy.hosts : arg.policy.hosts[i].host = HostToSelf)
        => res = FALSE

\* The policy of the one pattern *://self.alt:* refused the URL http://self.alt.
C19_HostNamedSelfRefused ==
    /\ op = "allows"
    /\ arg.policy = SpecificHosts(<< AllowedHostConfig_parse(<< "*", ":", "/", "/", "s", "e", "l", "f", ".", "a", "l", "t", ":", "*" >>).val >>)
    /\ arg.request.url.host = << "s", "e", "l", "f", ".", "a", "l", "t" >>
    /\ res = FALSE

\* The scheme matcher of a pattern accepts one of the candidate schemes.
AcceptsOneOf(sc, schemes) ==
    \E k \in DOMAIN schemes : sc.kind = "Any" \/ \E j \in DOMAIN sc.list : sc.list[j] = schemes[k]

\* The policy with the port matcher of every pattern replaced by `ports`.
WithPorts(policy, ports) ==
    [ policy EXCEPT !.hosts = [ i \in DOMAIN policy.hosts |-> [ policy.hosts[i] EXCEPT !.port = ports ] ] ]

\* C20: allows_relative_url(schemes) is true exactly when the policy is All or one
\* pattern has the host * or self and a scheme matcher that accepts one of the
\* schemes; the port matchers play no role: the answer is that of the policy with
\* every port matcher replaced by another.
C20_RelativeIffAnyOrSelf ==
    op = "allows_relative" =>
        /\ res <=> \/ arg.policy.kind = "All"
                   \/ \E i \in DOMAIN arg.policy.hosts :
                          /\ arg.policy.hosts[i].host \in { HostAny, HostToSelf }
                          /\ AcceptsOneOf(arg.policy.hosts[i].scheme, arg.request.schemes)
        /\ \A ports \in { PortAny, PortList(<< PortOne(1) >>) } :
               res = AllowedHostsConfig_allows_relative_url(WithPorts(arg.policy, ports), arg.request.schemes)

\* The one pattern http://*:443 allowed a relative request over http, whose
\* well-known port is 80.
C20_RelativeDespitePort ==
    /\ op = "allows_relative"
    /\ arg.policy = SpecificHosts(<< AllowedHostConfig_parse(<< "h", "t", "t", "p", ":", "/", "/", "*", ":", "4", "4", "3" >>).val >>)
    /\ arg.request.schemes = << << "h", "t", "t", "p" >> >>
    /\ res = TRUE

\* The well-known default ports by scheme.
DefaultPorts ==
    { << << "h", "t", "t", "p" >>, 80 >>, << << "h", "t", "t", "p", "s" >>, 443 >>, << << "p", "o", "s", "t", "g", "r", "e", "s" >>, 5432 >>, << << "m", "y", "s", "q", "l" >>, 3306 >>,
      << << "r", "e", "d", "i", "s" >>, 6379 >>, << << "m", "q", "t", "t" >>, 1883 >> }

\* The ports a URL can be matched on: its explicit port, or else the default of its
\* scheme, or none.
EffectivePorts(url_port, url_scheme) ==
    IF url_port.some THEN { url_port.val } ELSE { d[2] : d \in { e \in DefaultPorts : e[1] = url_scheme } }

\* The ports the port part of an entry stands for, by its text.
PortsOfText(text, scheme) ==
    IF text = << "8", "0" >> THEN { 80 }
    ELSE IF text = << "8", "0", "8", "0", ".", ".", "8", "0", "8", "2" >> THEN { 8080, 8081 }
    ELSE IF text = << "0", ".", ".", "6", "5", "5", "3", "5" >> THEN 0..65534
    ELSE IF text = << >> THEN { d[2] : d \in { e \in DefaultPorts : e[1] = scheme } }
    ELSE { }

\* C21: the matcher Any matches every URL; a matcher made of port specs matches
\* exactly when the explicit port of the URL, or else the well-known default port of
\* its scheme, lies in one of them, a single port p holding p only and a range a..b
\* the ports q with a <= q < b; with no explicit port and no default, nothing matches.
C21_PortMatching ==
    op = "port_allows" =>
        /\ res.allowed <=> \/ arg.port = << "*" >>
                           \/ EffectivePorts(arg.url_port, arg.url_scheme) \cap PortsOfText(arg.port, arg.scheme) # {}
        /\ res.allowed <=> \/ res.ports.kind = "Any"
                           \/ \E q \in EffectivePorts(arg.url_port, arg.url_scheme) :
                                  \E i \in DOMAIN res.ports.list :
                                      IF res.ports.list[i].kind = "Port" THEN q = res.ports.list[i].lo
                                      ELSE res.ports.list[i].lo <= q /\ q < res.ports.list[i].hi

\* The range 8080..8082 refused the port 8082, its end.
C21_EndOfRangeRefused ==
    /\ op = "port_allows"
    /\ arg.port = << "8", "0", "8", "0", ".", ".", "8", "0", "8", "2" >>
    /\ arg.url_port = Some(8082)
    /\ res.allowed = FALSE

\* C22: a policy whose list holds the pattern *://*:* decides as the policy All does,
\* on every absolute URL and on every relative check, whatever the candidate schemes.
C22_WildcardIsAll ==
    /\ op = "allows" => res = AllowedHostsConfig_allows(All, arg.request.url)
    /\ op = "allows_relative" => res = AllowedHostsConfig_allows_relative_url(All, arg.request.schemes)

\* The same on absolute URLs alone, and on relative checks alone.
C22_WildcardIsAllOnUrls == op = "allows" => res = AllowedHostsConfig_allows(All, arg.request.url)

C22_WildcardIsAllOnRelative ==
    op = "allows_relative" => res = AllowedHostsConfig_allows_relative_url(All, arg.request.schemes)

\* Where the two part: the host of a URL of a non-special scheme that is no domain
\* once percent-decoded, and the empty set of candidate schemes.
C22_WildcardIsAllElsewhere ==
    /\ (op = "allows" /\ HostParse(arg.request.url.host).ok) => res = TRUE
    /\ (op = "allows_relative" /\ arg.request.schemes # << >>) => res = TRUE

\* C23: parse and validate fail on every list that holds insecure:allow-all, be it
\* the only item or one among others, so no policy ever comes of it.
C23_AllowAllRefused ==
    (op \in { "parse", "validate" } /\ \E i \in DOMAIN arg : arg[i] = LiteralItem(<< "i", "n", "s", "e", "c", "u", "r", "e", ":", "a", "l", "l", "o", "w", "-", "a", "l", "l" >>))
        => ~res.ok

\* A list that holds a well-formed item before insecure:allow-all was refused by
\* validate.
C23_RefusedAmongOthers ==
    /\ op = "validate"
    /\ arg = << LiteralItem(<< "h", "t", "t", "p", ":", "/", "/", "a", ".", "i", "o", ":", "8", "0" >>), LiteralItem(<< "i", "n", "s", "e", "c", "u", "r", "e", ":", "a", "l", "l", "o", "w", "-", "a", "l", "l" >>) >>
    /\ ~res.ok

\* C24: an entry with a path after its authority is refused, with a port or without,
\* for literal and wildcard hosts; an entry whose only path is one trailing slash is
\* accepted and gives the pattern of the same entry without the slash.
C24_PathRefusedSlashDropped ==
    (op = "parsed" /\ arg.host # << "1", "0", ".", "0", ".", "0", ".", "0", "/", "8" >>) =>
        /\ arg.path \in { << "/", "a" >>, << "/", "/" >> } => ~res.entry.ok
        /\ (arg.path = << "/" >> /\ res.bare.ok) => res.entry.ok /\ res.entry.val = res.bare.val

\* The same where the code takes the slash off before it looks at the host: with a
\* port, or with a host that is neither `*` nor `self`, and for paths of other
\* characters than slashes.
C24_PathRefusedElsewhere ==
    (op = "parsed" /\ arg.host # << "1", "0", ".", "0", ".", "0", ".", "0", "/", "8" >>) =>
        /\ arg.path = << "/", "a" >> => ~res.entry.ok
        /\ (arg.path = << "/", "/" >> /\ arg.port # << >>) => ~res.entry.ok
        /\ (arg.path = << "/" >> /\ res.bare.ok /\ (arg.port # << >> \/ arg.host \notin { << "*" >>, << "s", "e", "l", "f" >> }))
               => res.entry.ok /\ res.entry.val = res.bare.val

\* The three ways the code parts from it.
C24_WildcardWithSlashRefused ==
    op = "parsed" /\ arg.host = << "*" >> /\ arg.port = << >> /\ arg.path = << "/" >> /\ res.bare.ok /\ ~res.entry.ok

C24_SelfWithSlashIsLiteral ==
    /\ op = "parsed" /\ arg.host = << "s", "e", "l", "f" >> /\ arg.port = << >> /\ arg.path = << "/" >>
    /\ res.bare.ok /\ res.entry.ok
    /\ res.bare.val.host = HostToSelf /\ res.entry.val.host.kind = "Literal"

C24_TwoSlashesAccepted ==
    op = "parsed" /\ arg.host = << "a", ".", "i", "o" >> /\ arg.port = << >> /\ arg.path = << "/", "/" >> /\ res.entry.ok

\* What an entry without a port is to give: the default port of its scheme alone, or
\* an error when the scheme has none.
DefaultPortGiven(scheme, parsed) ==
    IF \E d \in DefaultPorts : d[1] = scheme
    THEN parsed.ok /\ \E d \in DefaultPorts : d[1] = scheme /\ parsed.val.port = PortList(<< PortOne(d[2]) >>)
    ELSE ~parsed.ok

\* C25 as stated: an entry that gives no port is parsed to a port matcher that holds
\* the well-known default port of its scheme and nothing else, and is an error for
\* every scheme without one, the wildcard scheme among them.
C25_DefaultPortOrError ==
    (op = "parsed" /\ arg.port = << >> /\ arg.path = << >>) => DefaultPortGiven(arg.scheme, res.entry)

\* C25, amended: the same for an entry whose host holds no colon; a bracketed IPv6
\* address without a port is refused whatever the scheme.
C25_DefaultPortOrErrorWithoutColon ==
    (op = "parsed" /\ arg.port = << >> /\ arg.path = << >> /\ ~Contains(arg.host, << ":" >>))
        => DefaultPortGiven(arg.scheme, res.entry)

\* The entry mqtt://a.io got the port 1883, and http://[::1] was refused.
C25_MqttDefaultGiven ==
    /\ op = "parsed" /\ arg.scheme = << "m", "q", "t", "t" >> /\ arg.host = << "a", ".", "i", "o" >> /\ arg.port = << >> /\ arg.path = << >>
    /\ res.entry.ok /\ res.entry.val.port = PortList(<< PortOne(1883) >>)

C25_Ipv6WithoutPortRefused ==
    /\ op = "parsed" /\ arg.scheme = << "h", "t", "t", "p" >> /\ arg.host = << "[", ":", ":", "1", "]" >> /\ arg.port = << >> /\ arg.path = << >>
    /\ ~res.entry.ok

\* C26: a candidate parses to the same scheme, host and port with its userinfo as
\* written (a '#' in the password included) and with its userinfo percent-encoded,
\* with a scheme prefix or without; an '@' after the first path separator leaves the
\* host what it is.
C26_UserinfoEncodingIdempotent ==
    op = "candidate_parsed" =>
        /\ res.raw = res.encoded
        /\ res.bare.status = "ok" /\ res.bare.val.host = << "x", "y", "z", ".", "c", "o", "m" >>

\* The same for userinfo without a '/'.
C26_UserinfoWithoutSlash ==
    (op = "candidate_parsed" /\ ~Contains(arg.userinfo, << "/" >>)) =>
        /\ res.raw = res.encoded
        /\ res.raw.status = "ok" /\ res.raw.val.host = << "x", "y", "z", ".", "c", "o", "m" >>
        /\ res.bare.status = "ok" /\ res.bare.val.host = << "x", "y", "z", ".", "c", "o", "m" >>

\* A password with a '/' in it: the userinfo was left as written and the host came
\* out as another one than with the userinfo encoded.
C26_SlashInPasswordChangesHost ==
    /\ op = "candidate_parsed" /\ arg.userinfo = << "u", "s", "e", "r", ":", "p", "a", "/", "s", "s" >> /\ arg.prefix = << "m", "y", "s", "q", "l", ":", "/", "/" >>
    /\ res.encoded.status = "ok" /\ res.encoded.val.host = << "x", "y", "z", ".", "c", "o", "m" >>
    /\ res.raw.status = "ok" /\ res.raw.val.host # << "x", "y", "z", ".", "c", "o", "m" >>

\* What the allow-list says of a request, from the resolution of the policy.
AllowListSaysYes(uri, r) ==
    /\ r.ok
    /\ IF uri.host \in { << >>, << "s", "e", "l", "f", ".", "a", "l", "t" >> }
       THEN AllowedHostsConfig_allows_relative_url(r.val, << << "h", "t", "t", "p" >>, << "h", "t", "t", "p", "s" >> >>)
       ELSE AllowedHostsConfig_allows(r.val, OutboundUrl_parse(uri.text, << "h", "t", "t", "p", "s" >>).val)

\* C27: the check of the allow-list is the first thing that happens to a request: the
\* interceptor runs and a connection is tried only after it, and only if it said
\* yes; when it says no or fails, send returns HttpRequestDenied and neither of the
\* two has happened.
C27_CheckComesFirst ==
    op # "send" =>
        /\ res.events[1] = "check"
        /\ \A i \in DOMAIN res.events : i > 1 => res.events[i] # "check"
        /\ (\E i \in DOMAIN res.events : res.events[i] \in { "intercept", "connect" })
               => AllowListSaysYes(arg.uri, arg.resolution)
        /\ ~AllowListSaysYes(arg.uri, arg.resolution)
               => op = "returned" /\ res.result = "HttpRequestDenied" /\ res.events = << "check" >>

\* Once send has returned nothing more happens to the request.
C27_NothingAfterReturn == [][op = "returned" => UNCHANGED vars]_vars

\* The resolution of the policy failed and the request, whose instance has an
\* interceptor, was denied.
C27_DeniedOnFailedResolution ==
    /\ op = "returned" /\ ~arg.resolution.ok /\ arg.interceptor = "continue"
    /\ res.result = "HttpRequestDenied" /\ res.events = << "check" >>

\* C28: connect_tcp tries no connection to an address is_blocked reports as blocked;
\* when the lookup gave addresses and all of them are blocked it returns
\* DestinationIpProhibited without having tried any.
C28_NoConnectionToBlocked ==
    op = "connect_tcp" =>
        /\ \A i \in DOMAIN res.attempted :
               /\ ~BlockedNetworks_is_blocked(res.blocked_networks, as_ip_addr(res.attempted[i]))
               /\ \E j \in DOMAIN arg.addrs : arg.addrs[j] = res.attempted[i]
        /\ ( /\ res.result # "DnsError"
             /\ arg.addrs # << >>
             /\ \A j \in DOMAIN arg.addrs : BlockedNetworks_is_blocked(res.blocked_networks, as_ip_addr(arg.addrs[j])) )
               => res.result = "DestinationIpProhibited" /\ res.attempted = << >>

\* The lookup gave a blocked address and then a free one, and the connection was made
\* to the free one.
C28_ConnectedPastBlocked ==
    /\ op = "connect_tcp"
    /\ Len(arg.addrs) = 2
    /\ BlockedNetworks_is_blocked(res.blocked_networks, as_ip_addr(arg.addrs[1]))
    /\ res.result = "connected"
    /\ res.attempted = << arg.addrs[2] >>

\* C29: built from the same networks and the same block_private flag, the
\* BlockedNetworks of outbound-networking-config and the one of
\* factor-outbound-networking give the same is_blocked for every address and the
\* same two lists on remove_blocked.
C29_ImplementationsAgree ==
    op \in { "is_blocked_both", "remove_blocked_both" } => res.config = res.factor

\* The same on addresses that hold no IPv4 address inside an IPv6 one.
C29_AgreeWithoutEmbeddedIpv4 ==
    ( /\ op \in { "is_blocked_both", "remove_blocked_both" }
      /\ \A i \in DOMAIN arg.addrs :
             as_ip_addr(arg.addrs[i]).kind = "V6" => ~Ipv6Addr_to_ipv4(as_ip_addr(arg.addrs[i]).addr).some )
        => res.config = res.factor

\* The address ::ffff:10.10.10.10 is blocked by the one and free by the other.
C29_MappedAddressPartsThem ==
    /\ op = "is_blocked_both"
    /\ arg.addrs = << SocketAddr(IpV6(<< 0, 0, 0, 0, 0, 65535, 2570, 2570 >>), 80) >>
    /\ res.config = << TRUE >>
    /\ res.factor = << FALSE >>

\* The TLS client configuration ComponentTlsClientConfigs selects for a sender.
SelectedFor(sender) == get_client_config(get_component_tls_configs(AppTls, sender.component), sender.host)

\* C30: whatever the interleaving, a request of a component to a host goes over a
\* connection established with the TLS client configuration selected for that
\* component and host; a connection opened with the one of another component is
\* never taken for it.
C30_IdentityIsolation ==
    op = "clients" =>
        \A t \in Senders :
            res.request[t].at \in { "sending", "done" } => res.request[t].conn.config = SelectedFor(arg.sender[t])

\* The same without pooling: every request gets a connection of its own.
C30_IsolatedWithoutPooling ==
    (op = "clients" /\ ~arg.pooling) =>
        \A t \in Senders :
            res.request[t].at \in { "sending", "done" } => res.request[t].conn.config = SelectedFor(arg.sender[t])

\* A request of test-component2 to a.io went over the connection test-component1
\* had opened with its client certificate.
C30_ForeignIdentityReused ==
    /\ op = "clients"
    /\ \E t \in Senders :
           /\ arg.sender[t].component = "test-component2"
           /\ res.request[t].at = "sending"
           /\ res.request[t].conn.config.client_auth_cert.some
           /\ ~SelectedFor(arg.sender[t]).client_auth_cert.some

=============================================================================
